---- MODULE Spec2Model ----
(***************************************************************************)
(* Query-answering pipeline of the course chatbot backend:                 *)
(*   api/v1/chat.py      chat endpoint (guardrails, retrieval, generation) *)
(*   services/guardrails.py  classify_query, generate_clarification        *)
(*   services/rag.py     retrieve, generate_answer, confidence, citations  *)
(*   services/llm.py, embeddings.py, qdrant.py   provider gateways         *)
(* and the ingestion of the course documents into the vector index:        *)
(*   utils/chunking.py   chunk_markdown and its helpers                    *)
(*   services/ingestion.py   parse_docs_folder, embed_and_store,           *)
(*                       run_full_ingestion                                *)
(*   api/v1/ingest.py    admin endpoint trigger_ingestion                  *)
(* and the accounts kept in the database:                                  *)
(*   services/database.py    chat sessions of the chat endpoint            *)
(*   services/auth.py    create_user, resolve_username_collision           *)
(* Strings are sequences of one-character strings.  Similarity scores and  *)
(* confidences are exact fractions; a score s stands for s / ScoreUnit.    *)
(***************************************************************************)
EXTENDS Integers, Sequences, FiniteSets, TLC

VARIABLES
    llm_available,      \* llm_service._is_available
    emb_available,      \* embeddings_service._is_available
    qdrant_available,   \* qdrant_service._is_available
    pc,                 \* position of the chat handler for the current request
    query,              \* sanitized query text of the current request
    top_k,              \* chat_request.top_k
    awaitable,          \* llm_service.generate returns an awaitable (double) or a plain value (llm.py)
    classification,     \* result of classify_query, NoValue before it ran
    query_embedding,    \* TRUE once retrieve holds a query vector
    chunks,             \* chunks returned by rag_service.retrieve
    response,           \* ChatResponse returned by the handler, NoValue before
    calls,              \* external calls issued for the current request, per capability
    failed,             \* capabilities whose call failed for the current request
    classify_out,       \* what the provider did with the classification call (history)
    clarify_out,        \* what the provider did with the clarification call (history)
    syn_pc,             \* position in the synthesizer's pure steps (rag.py generate_answer)
    syn_chunks,         \* retrieved chunks handed to check_confidence and _build_citations
    syn_url,            \* raw url handed to _clean_citation_url
    syn_confidence,     \* value returned by check_confidence
    syn_citations,      \* list returned by _build_citations
    syn_clean,          \* string returned by _clean_citation_url
    md_files,           \* files found by _find_markdown_files, in the order of the loop
    cfg_max_tokens,     \* settings.MAX_CHUNK_SIZE
    cfg_overlap,        \* settings.CHUNK_OVERLAP
    parse_pc,           \* position of parse_docs_folder
    all_chunks,         \* parse_docs_folder.all_chunks, its return value once done
    parsed_files,       \* parse_docs_folder.parsed_files
    failed_files,       \* parse_docs_folder.failed_files
    chunk_results,      \* outcome of each chunk_markdown call of the loop (history)
    collection_exists,  \* the Qdrant collection exists
    index,              \* points of the Qdrant collection
    ing_pc,             \* position of the ingestion invocation
    ing_entry,          \* run_full_ingestion or the admin endpoint trigger_ingestion
    ing_force,          \* run_full_ingestion.force_reindex
    ing_folder,         \* shape of the docs folder, the same for every invocation
    ing_chunks,         \* chunks returned by parse_docs_folder
    ing_embeddings,     \* _generate_embeddings_chunked.all_embeddings / response.embeddings
    ing_offset,         \* start of the next embedding sub-batch, then of the next upsert batch
    ing_submitted,      \* sub-batches handed to client.embed by this invocation (history)
    ing_failed_at,      \* number of the sub-batch whose call failed, 0 if none (history)
    ing_written,        \* chunks written by the successful client.upsert calls (history)
    ing_stored,         \* return value of embed_and_store
    ing_report,         \* result of run_full_ingestion / IngestResponse
    ing_runs,           \* invocations completed so far
    ing_whole_runs,     \* invocations that stored the whole folder since the last drop (history)
    ing_index_before,   \* points of the collection when the invocation started (history)
    db_available,       \* db_service._is_available
    sessions,           \* rows of the chat_sessions table
    uuid_count,         \* session ids drawn by uuid4 so far
    ses_pc,             \* position of the chat handler in its session management
    ses_request,        \* session_id of the chat request and the id of its user
    ses_session_id,     \* chat.session_id
    ses_before,         \* rows of chat_sessions when the request arrived (history)
    ses_response,       \* status and session_id of the answer
    ses_requests,       \* chat requests completed so far
    users,              \* rows of the users table
    signup              \* locals of each running create_user call

vars == << llm_available, emb_available, qdrant_available, pc, query, top_k,
           awaitable, classification, query_embedding, chunks, response,
           calls, failed, classify_out, clarify_out,
           syn_pc, syn_chunks, syn_url, syn_confidence, syn_citations, syn_clean,
           md_files, cfg_max_tokens, cfg_overlap, parse_pc, all_chunks,
           parsed_files, failed_files, chunk_results,
           collection_exists, index, ing_pc, ing_entry, ing_force, ing_folder,
           ing_chunks, ing_embeddings, ing_offset, ing_submitted, ing_failed_at,
           ing_written, ing_stored, ing_report, ing_runs, ing_whole_runs,
           ing_index_before, db_available, sessions, uuid_count, ses_pc, ses_request,
           ses_session_id, ses_before, ses_response, ses_requests,
           users, signup >>

\* state of one chat request
requestVars == << pc, query, top_k, awaitable, classification, query_embedding,
                 chunks, response, calls, failed, classify_out, clarify_out >>

chatVars == << llm_available, emb_available, qdrant_available, requestVars >>

synVars == << syn_pc, syn_chunks, syn_url, syn_confidence, syn_citations, syn_clean >>

chunkVars == << md_files, cfg_max_tokens, cfg_overlap, parse_pc, all_chunks,
               parsed_files, failed_files, chunk_results >>

ingestVars == << collection_exists, index, ing_pc, ing_entry, ing_force, ing_folder,
                ing_chunks, ing_embeddings, ing_offset, ing_submitted,
                ing_failed_at, ing_written, ing_stored, ing_report, ing_runs,
                ing_whole_runs, ing_index_before >>

sessionVars == << db_available, sessions, uuid_count, ses_pc, ses_request,
                 ses_session_id, ses_before, ses_response, ses_requests >>

authVars == << users, signup >>

accountVars == << sessionVars, authVars >>

\* state of the other components, untouched by the chat handler
otherVars == << synVars, chunkVars, ingestVars, accountVars >>

----------------------------------------------------------------------------
(* Bounds of the model *)

MaxTopK == 2

\* longest retrieval result handed to _build_citations
MaxCited == 6

\* longest score list handed to check_confidence
MaxScored == 3

\* most path segments of a raw citation url
MaxSegments == 2

\* most blocks (paragraphs and headings) of a drawn document
MaxBlocks == 3

\* most files of a drawn docs folder
MaxFiles == 3

\* most embedding sub-batches of one ingestion
MaxSubBatches == 3

\* ingestion invocations in one run of the model
MaxRuns == 2

\* chat requests in one run of the model
MaxRequests == 2

\* concurrent create_user calls
MaxSignups == 2

----------------------------------------------------------------------------
(* String helpers: str.lower, str.strip, str.startswith, str.endswith, in *)

UpperChars == <<"A", "B", "C", "D", "E", "F", "G", "H", "I", "J", "K", "L", "M", "N", "O", "P", "Q", "R", "S", "T", "U", "V", "W", "X", "Y", "Z">>

LowerChars == <<"a", "b", "c", "d", "e", "f", "g", "h", "i", "j", "k", "l", "m", "n", "o", "p", "q", "r", "s", "t", "u", "v", "w", "x", "y", "z">>

LowerChar(c) ==
    IF \E i \in 1..Len(UpperChars) : UpperChars[i] = c
    THEN LowerChars[CHOOSE i \in 1..Len(UpperChars) : UpperChars[i] = c]
    ELSE c

Lower(s) == [i \in 1..Len(s) |-> LowerChar(s[i])]

IsSpace(c) == c = " "

RECURSIVE LStrip(_)
LStrip(s) ==
    IF s # << >> /\ IsSpace(Head(s)) THEN LStrip(Tail(s)) ELSE s

RECURSIVE RStrip(_)
RStrip(s) ==
    IF s # << >> /\ IsSpace(s[Len(s)]) THEN RStrip(SubSeq(s, 1, Len(s) - 1)) ELSE s

Strip(s) == RStrip(LStrip(s))

StartsWith(s, p) == Len(p) <= Len(s) /\ SubSeq(s, 1, Len(p)) = p

EndsWith(s, p) == Len(p) <= Len(s) /\ SubSeq(s, Len(s) - Len(p) + 1, Len(s)) = p

Contains(s, p) ==
    \E i \in 0..(Len(s) - Len(p)) : SubSeq(s, i + 1, i + Len(p)) = p

----------------------------------------------------------------------------
(* Fixed data of the pipeline *)

OUT_OF_SCOPE_KEYWORDS ==
    { <<"w", "e", "a", "t", "h", "e", "r">>,
      <<"t", "e", "m", "p", "e", "r", "a", "t", "u", "r", "e">>,
      <<"f", "o", "r", "e", "c", "a", "s", "t">>,
      <<"r", "a", "i", "n">>,
      <<"s", "n", "o", "w">>,
      <<"c", "l", "i", "m", "a", "t", "e">>,
      <<"j", "o", "k", "e">>,
      <<"f", "u", "n", "n", "y">>,
      <<"m", "e", "m", "e">>,
      <<"m", "o", "v", "i", "e">>,
      <<"s", "o", "n", "g">>,
      <<"m", "u", "s", "i", "c">>,
      <<"g", "a", "m", "e">>,
      <<"c", "a", "p", "i", "t", "a", "l">>,
      <<"c", "o", "u", "n", "t", "r", "y">>,
      <<"g", "e", "o", "g", "r", "a", "p", "h", "y">>,
      <<"h", "i", "s", "t", "o", "r", "y">>,
      <<"r", "e", "c", "i", "p", "e">>,
      <<"c", "o", "o", "k", "i", "n", "g">>,
      <<"s", "p", "o", "r", "t", "s">>,
      <<"f", "o", "o", "t", "b", "a", "l", "l">>,
      <<"b", "a", "s", "k", "e", "t", "b", "a", "l", "l">>,
      <<"c", "r", "i", "c", "k", "e", "t">>,
      <<"s", "o", "c", "c", "e", "r">>,
      <<"n", "e", "w", "s">>,
      <<"p", "o", "l", "i", "t", "i", "c", "s">>,
      <<"e", "l", "e", "c", "t", "i", "o", "n">>,
      <<"p", "r", "e", "s", "i", "d", "e", "n", "t">>,
      <<"d", "a", "t", "i", "n", "g">>,
      <<"r", "e", "l", "a", "t", "i", "o", "n", "s", "h", "i", "p">>,
      <<"h", "e", "a", "l", "t", "h">>,
      <<"m", "e", "d", "i", "c", "a", "l">> }

simple_greetings ==
    { <<"h", "i">>,
      <<"h", "e", "l", "l", "o">>,
      <<"h", "e", "y">>,
      <<"s", "a", "l", "a", "m">>,
      <<"h", "i", "!">>,
      <<"h", "e", "l", "l", "o", "!">>,
      <<"h", "e", "y", "!">>,
      <<"g", "o", "o", "d", " ", "m", "o", "r", "n", "i", "n", "g">>,
      <<"g", "o", "o", "d", " ", "a", "f", "t", "e", "r", "n", "o", "o", "n">>,
      <<"g", "o", "o", "d", " ", "e", "v", "e", "n", "i", "n", "g">>,
      <<"g", "r", "e", "e", "t", "i", "n", "g", "s">> }

greeting_prefixes ==
    { <<"h", "i", " ">>, <<"h", "e", "l", "l", "o", " ">>, <<"h", "e", "y", " ">> }

OUT_OF_SCOPE_MESSAGE == "OUT_OF_SCOPE_MESSAGE"

GREETING_RESPONSE == "get_greeting_response"

OFF_TOPIC_RESPONSE == "get_off_topic_response"

GENERIC_CLARIFICATION == "Could you clarify your question?"

FALLBACK_REASONING == "Fallback due to classification error"

NoValue == "NoValue"

ScoreUnit == 10 * 10

CONFIDENCE_THRESHOLD == 20

TOP_WEIGHT == 6

AVG_WEIGHT == 4

MAX_CONTEXT_CHUNKS == 5

QDRANT_MAX_LIMIT == 10

----------------------------------------------------------------------------
(* Inputs *)

Queries ==
    { <<"H", "e", "l", "l", "o", "!">>,
      <<"h", "i", " ", "b", "o", "t">>,
      <<"s", "a", "l", "a", "m", " ", "b", "o", "t">>,
      <<"r", "o", "s">>,
      <<"n", "e", "w", "s">> }

Points ==
    { [url |-> <<"d", "o", "c", "s", "/", "0", "1", "-", "i", "n", "t", "r", "o", "/", "i", "n", "d", "e", "x", ".", "m", "d">>, chapter |-> "Intro", section |-> "Overview"],
      [url |-> <<"d", "o", "c", "s", "/", "0", "1", "-", "i", "n", "t", "r", "o", ".", "m", "d">>, chapter |-> "Intro", section |-> "Goals"],
      [url |-> <<"0", "3", "-", "r", "o", "s", "/", "3", ".", "2", "-", "n", "a", "v", ".", "m", "d">>, chapter |-> "ROS", section |-> "Nav"] }

ScoreValues == { -50, 15, 20, 90, 150 }

Labels == { "GREETING", "ON_TOPIC", "AMBIGUOUS", "OFF_TOPIC" }

----------------------------------------------------------------------------
(* Exact fractions *)

Frac(n, d) == [num |-> n, den |-> d]

FracLess(a, b) == a.num * b.den < b.num * a.den

FracLeq(a, b) == a.num * b.den <= b.num * a.den

FracEq(a, b) == a.num * b.den = b.num * a.den

Zero == Frac(0, 1)

Half == Frac(1, 2)

One == Frac(1, 1)

----------------------------------------------------------------------------
(* chat.py: fast-path greeting test *)

is_fast_path_greeting(q) ==
    LET query_lower == Strip(Lower(q))
    IN  \/ query_lower \in simple_greetings
        \/ \E p \in greeting_prefixes : StartsWith(query_lower, p)

(* rag.py: keyword screen *)

is_out_of_scope(q) ==
    LET query_lower == Lower(q)
    IN  \E keyword \in OUT_OF_SCOPE_KEYWORDS : Contains(query_lower, keyword)

(* rag.py: confidence = 0.6 * top + 0.4 * mean, as an exact fraction *)

RECURSIVE SumScores(_)
SumScores(cs) ==
    IF cs = << >> THEN 0 ELSE Head(cs).score + SumScores(Tail(cs))

\* the two weights exchanged
check_confidence_swapped(cs) ==
    IF cs = << >>
    THEN Zero
    ELSE Frac(AVG_WEIGHT * cs[1].score * Len(cs) + TOP_WEIGHT * SumScores(cs),
              (TOP_WEIGHT + AVG_WEIGHT) * Len(cs) * ScoreUnit)

check_confidence(cs) ==
    IF cs = << >>
    THEN Zero
    ELSE Frac(TOP_WEIGHT * cs[1].score * Len(cs) + AVG_WEIGHT * SumScores(cs),
              (TOP_WEIGHT + AVG_WEIGHT) * Len(cs) * ScoreUnit)

(* rag.py: URL normalisation *)

IsDigit(c) == c \in {"0", "1", "2", "3", "4", "5", "6", "7", "8", "9"}

RECURSIVE LeadingDigits(_)
LeadingDigits(seg) ==
    IF seg # << >> /\ IsDigit(Head(seg)) THEN 1 + LeadingDigits(Tail(seg)) ELSE 0

\* the pattern without its repetition: one digit run only
StripNumericPrefixOnce(seg) ==
    LET k == LeadingDigits(seg)
    IN  IF k > 0 /\ k < Len(seg) /\ seg[k + 1] \in {".", "-"}
        THEN SubSeq(seg, k + 2, Len(seg))
        ELSE seg

\* re.sub(r"^(\d+[.-])+", "", segment)
RECURSIVE StripNumericPrefix(_)
StripNumericPrefix(seg) ==
    LET k == LeadingDigits(seg)
    IN  IF k > 0 /\ k < Len(seg) /\ seg[k + 1] \in {".", "-"}
        THEN StripNumericPrefix(SubSeq(seg, k + 2, Len(seg)))
        ELSE seg

\* str.split("/")
RECURSIVE Split(_, _)
Split(s, cur) ==
    IF s = << >> THEN << cur >>
    ELSE IF Head(s) = "/" THEN << cur >> \o Split(Tail(s), << >>)
    ELSE Split(Tail(s), Append(cur, Head(s)))

RECURSIVE CleanSegments(_)
CleanSegments(segs) ==
    IF segs = << >> THEN << >>
    ELSE LET cleaned == StripNumericPrefix(Head(segs))
         IN  IF Head(segs) # << >> /\ cleaned # << >>
             THEN << cleaned >> \o CleanSegments(Tail(segs))
             ELSE CleanSegments(Tail(segs))

\* "/".join(segments)
RECURSIVE Join(_)
Join(segs) ==
    IF segs = << >> THEN << >>
    ELSE IF Len(segs) = 1 THEN Head(segs)
    ELSE Head(segs) \o << "/" >> \o Join(Tail(segs))

clean_citation_url(url) ==
    IF url = << >> THEN << >>
    ELSE
      LET s1 == IF StartsWith(url, <<"d", "o", "c", "s", "/">>) THEN SubSeq(url, 6, Len(url))
                ELSE IF StartsWith(url, <<"/", "d", "o", "c", "s", "/">>) THEN SubSeq(url, 7, Len(url))
                ELSE url
          s2 == IF EndsWith(s1, <<".", "m", "d">>) THEN SubSeq(s1, 1, Len(s1) - 3) ELSE s1
          s3 == IF EndsWith(s2, <<"/", "i", "n", "d", "e", "x">>) THEN SubSeq(s2, 1, Len(s2) - 6) ELSE s2
          s4 == Join(CleanSegments(Split(s3, << >>)))
      IN  IF StartsWith(s4, << "/" >>) THEN s4 ELSE << "/" >> \o s4

(* rag.py: citations of the top chunks, first occurrence of a URL wins *)

Take(s, n) == SubSeq(s, 1, IF Len(s) < n THEN Len(s) ELSE n)

\* a chunk of an already cited url overwrites that citation
RECURSIVE BuildCitationsLastWins(_, _, _)
BuildCitationsLastWins(cs, citations, seen_urls) ==
    IF cs = << >> THEN citations
    ELSE LET url == clean_citation_url(Head(cs).url)
             c == [chapter |-> Head(cs).chapter, section |-> Head(cs).section,
                   url |-> url, relevance_score |-> Head(cs).score]
         IN  IF url \in seen_urls
             THEN BuildCitationsLastWins(
                      Tail(cs),
                      [i \in 1..Len(citations) |->
                          IF citations[i].url = url THEN c ELSE citations[i]],
                      seen_urls)
             ELSE BuildCitationsLastWins(Tail(cs), Append(citations, c),
                                         seen_urls \cup {url})

RECURSIVE BuildCitationsFrom(_, _, _)
BuildCitationsFrom(cs, citations, seen_urls) ==
    IF cs = << >> THEN citations
    ELSE LET url == clean_citation_url(Head(cs).url)
         IN  IF url \in seen_urls
             THEN BuildCitationsFrom(Tail(cs), citations, seen_urls)
             ELSE BuildCitationsFrom(
                      Tail(cs),
                      Append(citations, [chapter |-> Head(cs).chapter,
                                         section |-> Head(cs).section,
                                         url |-> url,
                                         relevance_score |-> Head(cs).score]),
                      seen_urls \cup {url})

\* every chunk considered, not only the top ones
build_citations_uncapped(cs) == BuildCitationsFrom(cs, << >>, {})

build_citations(cs) == BuildCitationsFrom(Take(cs, MAX_CONTEXT_CHUNKS), << >>, {})

----------------------------------------------------------------------------
(* Provider outcomes *)

\* what the chat-completion capability hands back for a classification prompt
ClassifyOutcomes ==
    [kind : {"raise", "none"}, cls : {"missing"}, score : {"missing"},
     reasoning : {"missing"}]
    \cup
    [kind : {"text"},
     cls : Labels \cup {"OTHER", "missing"},
     score : {"1.0", "0.5", "0.0", "bad", "missing"},
     reasoning : {"given", "missing"}]

\* llm.py's generate hands its caller a plain value whose content is never
\* inspected (the await fails first): only the kind of outcome matters there
PlainClassifyOutcomes ==
    [kind : {"raise", "none", "text"}, cls : {"missing"}, score : {"missing"},
     reasoning : {"missing"}]

\* ... for a clarification prompt: with or without a <clarification> block
ClarifyOutcomes == [kind : {"raise", "none"}, block : {"missing"}]
                   \cup [kind : {"text"}, block : {"present", "missing"}]

EmbedOutcomes == {"ok", "empty", "api_error", "other_error"}

SearchErrors == {"unexpected_response", "other_error"}

GenerateOutcomes == {"raise", "empty", "text"}

Hits ==
    { [url |-> pt.url, chapter |-> pt.chapter, section |-> pt.section,
       score |-> sc] : pt \in Points, sc \in ScoreValues }

PointOf(h) == [url |-> h.url, chapter |-> h.chapter, section |-> h.section]

\* result lists of at most n hits over distinct stored points
SearchResults(n) ==
    UNION { { r \in [1..k -> Hits] :
                \A i, j \in 1..k : i # j => PointOf(r[i]) # PointOf(r[j]) }
            : k \in 0..n }

Min(a, b) == IF a < b THEN a ELSE b

----------------------------------------------------------------------------
(* models/response.py: the response object *)

ChatResponse(answer, citations, confidence) ==
    [answer |-> answer, citations |-> citations, confidence |-> confidence]

NoResponse == ChatResponse(NoValue, << >>, Zero)

HTTP_500 == ChatResponse("HTTP_500", << >>, Zero)

NoClassification == [label |-> NoValue, score |-> 0, reasoning |-> ""]

NotCalled == "not_called"

NoClassifyOut == [kind |-> NotCalled, cls |-> "missing", score |-> "missing",
                  reasoning |-> "missing"]

NoClarifyOut == [kind |-> NotCalled, block |-> "missing"]

NoCalls == [classify |-> 0, clarify |-> 0, embed |-> 0, search |-> 0, generate |-> 0]

----------------------------------------------------------------------------
(* llm.py: LLMService.generate as bound in llm.py (plain, non-awaitable     *)
(* return value) or as the awaitable double the unit tests install          *)

\* TRUE iff the provider is actually called
llm_call_issued(aw, avail) == aw \/ avail

\* does `await llm_service.generate(...)` raise inside the caller's try block
await_generate_raises(aw, kind) ==
    IF aw THEN kind = "raise"     \* the double's side effect
    ELSE TRUE                     \* a str or None cannot be awaited: TypeError

\* _is_available after generate / generate_response
llm_available_after(aw, avail, kind) ==
    IF ~aw /\ avail /\ kind = "raise" THEN FALSE ELSE avail

(* guardrails.py: classify_query *)

ScoreOf(sc) == CASE sc = "1.0" -> ScoreUnit
                 [] sc = "0.5" -> ScoreUnit \div 2
                 [] OTHER -> 0

FallbackClassification ==
    [label |-> "ON_TOPIC", score |-> ScoreUnit, reasoning |-> FALLBACK_REASONING]

\* re.search on None and float() of a non-number raise
parse_classification_raises(out) ==
    out.kind = "none" \/ (out.kind = "text" /\ out.score = "bad")

parse_classification(out) ==
    [label |-> IF out.cls = "missing" THEN "ON_TOPIC" ELSE out.cls,
     score |-> IF out.score = "missing" THEN ScoreUnit ELSE ScoreOf(out.score),
     reasoning |-> IF out.reasoning = "missing" THEN "" ELSE "given"]

\* variant: no try/except around the call and the parsing
classify_query_no_fallback(aw, out) ==
    IF await_generate_raises(aw, out.kind) \/ parse_classification_raises(out)
    THEN [raises |-> TRUE, result |-> FallbackClassification]
    ELSE [raises |-> FALSE, result |-> parse_classification(out)]

classify_query(aw, out) ==
    IF await_generate_raises(aw, out.kind) \/ parse_classification_raises(out)
    THEN [raises |-> FALSE, result |-> FallbackClassification]
    ELSE [raises |-> FALSE, result |-> parse_classification(out)]

(* guardrails.py: generate_clarification *)

\* variant: the raw model text is returned when it holds no clarification block
generate_clarification_raw(aw, out) ==
    IF await_generate_raises(aw, out.kind) \/ out.kind = "none"
    THEN [raises |-> FALSE, text |-> GENERIC_CLARIFICATION]
    ELSE [raises |-> FALSE,
          text |-> IF out.block = "present" THEN "LLM_CLARIFICATION"
                   ELSE "LLM_RAW_TEXT"]

\* variant: no try/except around the call
generate_clarification_no_except(aw, out) ==
    IF await_generate_raises(aw, out.kind) \/ out.kind = "none"
    THEN [raises |-> TRUE, text |-> GENERIC_CLARIFICATION]
    ELSE [raises |-> FALSE,
          text |-> IF out.block = "present" THEN "LLM_CLARIFICATION"
                   ELSE GENERIC_CLARIFICATION]

generate_clarification(aw, out) ==
    IF await_generate_raises(aw, out.kind) \/ out.kind = "none"
    THEN [raises |-> FALSE, text |-> GENERIC_CLARIFICATION]
    ELSE [raises |-> FALSE,
          text |-> IF out.block = "present" THEN "LLM_CLARIFICATION"
                   ELSE GENERIC_CLARIFICATION]

(* chat.py: branch taken on the classification label *)

\* variant: the OFF_TOPIC branch is missing
chat_branch_no_off_topic(label) ==
    CASE label = "GREETING" -> "greeting"
      [] label = "AMBIGUOUS" -> "clarify"
      [] OTHER -> "retrieve"

chat_branch(label) ==
    CASE label = "GREETING" -> "greeting"
      [] label = "OFF_TOPIC" -> "off_topic"
      [] label = "AMBIGUOUS" -> "clarify"
      [] OTHER -> "retrieve"

(* rag.py: retrieve gives up on a missing embedding, once *)

\* variant: a transient embedding error is retried
after_embed_retry(out) ==
    IF out = "ok" THEN "search"
    ELSE IF out = "other_error" THEN "embed" ELSE "done"

after_embed(out) == IF out = "ok" THEN "search" ELSE "done"

(* llm.py: generate_response, the text it returns or NoValue for None *)

generate_response(avail, kind) ==
    IF ~avail THEN NoValue
    ELSE IF kind = "raise" THEN NoValue
    ELSE IF kind = "empty" THEN "" ELSE "LLM_ANSWER"

(* rag.py: generate_answer *)

Threshold == Frac(CONFIDENCE_THRESHOLD, ScoreUnit)

Decline == ChatResponse(OUT_OF_SCOPE_MESSAGE, << >>, Zero)

keyword_screen(q) == is_out_of_scope(q)

\* variant: the comparison is inverted
below_threshold_inverted(confidence) == FracLess(Threshold, confidence)

below_threshold(confidence) == FracLess(confidence, Threshold)

reported_confidence(confidence) == confidence

generate_answer_calls_llm(q, cs) ==
    ~keyword_screen(q) /\ ~below_threshold(check_confidence(cs))

\* variant: a missing or empty completion is not checked
generate_answer_unchecked(q, cs, avail, kind) ==
    IF keyword_screen(q) THEN Decline
    ELSE LET confidence == check_confidence(cs)
         IN  IF below_threshold(confidence) THEN Decline
             ELSE ChatResponse(generate_response(avail, kind), build_citations(cs),
                               reported_confidence(confidence))

generate_answer(q, cs, avail, kind) ==
    IF keyword_screen(q) THEN Decline
    ELSE LET confidence == check_confidence(cs)
         IN  IF below_threshold(confidence) THEN Decline
             ELSE LET answer == generate_response(avail, kind)
                  IN  IF answer = NoValue \/ answer = ""
                      THEN Decline
                      ELSE ChatResponse(answer, build_citations(cs),
                                        reported_confidence(confidence))

----------------------------------------------------------------------------
(* utils/chunking.py: text helpers *)

IsWhitespace(c) == c \in {" ", "\n", "\t"}

\* str.strip()
RECURSIVE LStripWhitespace(_)
LStripWhitespace(s) ==
    IF s # << >> /\ IsWhitespace(Head(s)) THEN LStripWhitespace(Tail(s)) ELSE s

RECURSIVE RStripWhitespace(_)
RStripWhitespace(s) ==
    IF s # << >> /\ IsWhitespace(s[Len(s)])
    THEN RStripWhitespace(SubSeq(s, 1, Len(s) - 1)) ELSE s

StripWhitespace(s) == RStripWhitespace(LStripWhitespace(s))

\* sep.join(parts)
RECURSIVE JoinWith(_, _)
JoinWith(parts, sep) ==
    IF parts = << >> THEN << >>
    ELSE IF Len(parts) = 1 THEN Head(parts)
    ELSE Head(parts) \o sep \o JoinWith(Tail(parts), sep)

ParagraphBreak == << "\n", "\n" >>

\* _estimate_tokens: len(text) // 4
estimate_tokens(text) == Len(text) \div 4

RECURSIVE DropNewlines(_)
DropNewlines(s) ==
    IF s # << >> /\ Head(s) = "\n" THEN DropNewlines(Tail(s)) ELSE s

\* re.split(r'\n\n+', text)
RECURSIVE SplitParagraphs(_, _)
SplitParagraphs(s, cur) ==
    IF s = << >> THEN << cur >>
    ELSE IF Len(s) >= 2 /\ s[1] = "\n" /\ s[2] = "\n"
    THEN << cur >> \o SplitParagraphs(DropNewlines(s), << >>)
    ELSE SplitParagraphs(Tail(s), Append(cur, Head(s)))

\* re.split(r'(?<=[.!?])\s+', paragraph)
RECURSIVE SplitSentences(_, _)
SplitSentences(s, cur) ==
    IF s = << >> THEN << cur >>
    ELSE IF IsWhitespace(Head(s)) /\ cur # << >> /\ cur[Len(cur)] \in {".", "!", "?"}
    THEN << cur >> \o SplitSentences(LStripWhitespace(s), << >>)
    ELSE SplitSentences(Tail(s), Append(cur, Head(s)))

(* utils/chunking.py: _chunk_text, the loop state is (chunks, current_chunk, *)
(* current_tokens)                                                           *)

ChunkerStart == [chunks |-> << >>, current_chunk |-> << >>, current_tokens |-> 0]

\* lines 161-170: one sentence of an oversized paragraph
SentenceStep(st, sentence, max_tokens) ==
    LET sent_tokens == estimate_tokens(sentence)
    IN  IF st.current_tokens + sent_tokens > max_tokens
        THEN [chunks |-> IF st.current_chunk # << >>
                         THEN Append(st.chunks, JoinWith(st.current_chunk, ParagraphBreak))
                         ELSE st.chunks,
              current_chunk |-> << sentence >>,
              current_tokens |-> sent_tokens]
        ELSE [chunks |-> st.chunks,
              current_chunk |-> Append(st.current_chunk, sentence),
              current_tokens |-> st.current_tokens + sent_tokens]

RECURSIVE SentenceLoop(_, _, _)
SentenceLoop(st, sentences, max_tokens) ==
    IF sentences = << >> THEN st
    ELSE SentenceLoop(SentenceStep(st, Head(sentences), max_tokens),
                      Tail(sentences), max_tokens)

\* lines 148-188: one paragraph
ParagraphStep(st, paragraph, max_tokens, overlap) ==
    LET para_tokens == estimate_tokens(paragraph)
    IN  IF para_tokens > max_tokens
        THEN LET saved == IF st.current_chunk # << >>
                          THEN [chunks |-> Append(st.chunks,
                                                  JoinWith(st.current_chunk, ParagraphBreak)),
                                current_chunk |-> << >>,
                                current_tokens |-> 0]
                          ELSE st
             IN  SentenceLoop(saved, SplitSentences(paragraph, << >>), max_tokens)
        ELSE IF st.current_tokens + para_tokens > max_tokens
        THEN IF overlap > 0 /\ st.current_chunk # << >>
             THEN LET overlap_text == st.current_chunk[Len(st.current_chunk)]
                  IN  [chunks |-> Append(st.chunks,
                                         JoinWith(st.current_chunk, ParagraphBreak)),
                       current_chunk |-> << overlap_text, paragraph >>,
                       current_tokens |-> estimate_tokens(overlap_text) + para_tokens]
             ELSE [chunks |-> Append(st.chunks,
                                     JoinWith(st.current_chunk, ParagraphBreak)),
                   current_chunk |-> << paragraph >>,
                   current_tokens |-> para_tokens]
        ELSE [chunks |-> st.chunks,
              current_chunk |-> Append(st.current_chunk, paragraph),
              current_tokens |-> st.current_tokens + para_tokens]

RECURSIVE ParagraphLoop(_, _, _, _)
ParagraphLoop(st, paragraphs, max_tokens, overlap) ==
    IF paragraphs = << >> THEN st
    ELSE ParagraphLoop(ParagraphStep(st, Head(paragraphs), max_tokens, overlap),
                       Tail(paragraphs), max_tokens, overlap)

\* _chunk_text
chunk_text(text, max_tokens, overlap) ==
    LET st == ParagraphLoop(ChunkerStart, SplitParagraphs(text, << >>),
                            max_tokens, overlap)
    IN  IF st.current_chunk # << >>
        THEN Append(st.chunks, JoinWith(st.current_chunk, ParagraphBreak))
        ELSE st.chunks

(* utils/chunking.py: _split_by_headings, the pattern ^##\s+(.+)$ per line *)

RECURSIVE WhitespaceEnd(_, _)
WhitespaceEnd(c, j) ==
    IF j <= Len(c) /\ IsWhitespace(c[j]) THEN WhitespaceEnd(c, j + 1) ELSE j

RECURSIVE LineEnd(_, _)
LineEnd(c, j) ==
    IF j <= Len(c) /\ c[j] # "\n" THEN LineEnd(c, j + 1) ELSE j

HeadingAt(c, i) ==
    /\ i = 1 \/ c[i - 1] = "\n"
    /\ i + 2 <= Len(c)
    /\ c[i] = "#" /\ c[i + 1] = "#"
    /\ IsWhitespace(c[i + 2])
    /\ LineEnd(c, WhitespaceEnd(c, i + 2)) > WhitespaceEnd(c, i + 2)

\* heading_pattern.finditer(content): start, stripped title, first position after
RECURSIVE HeadingMatches(_, _)
HeadingMatches(c, i) ==
    IF i > Len(c) THEN << >>
    ELSE IF HeadingAt(c, i)
    THEN LET w == WhitespaceEnd(c, i + 2)
             e == LineEnd(c, w)
         IN  << [start |-> i, title |-> StripWhitespace(SubSeq(c, w, e - 1)), stop |-> e] >>
                 \o HeadingMatches(c, e)
    ELSE HeadingMatches(c, i + 1)

split_by_headings(content) ==
    LET matches == HeadingMatches(content, 1)
    IN  IF matches = << >>
        THEN << [title |-> << >>, text |-> content] >>
        ELSE [i \in 1..Len(matches) |->
                 [title |-> matches[i].title,
                  text |-> StripWhitespace(
                      SubSeq(content, matches[i].stop,
                             IF i + 1 <= Len(matches)
                             THEN matches[i + 1].start - 1
                             ELSE Len(content)))]]

(* utils/chunking.py: chunk ids, urls, chunk_markdown *)

ID_TEXT_PREFIX == 100

\* _generate_chunk_id: the MD5 digest of "path:section:text[:100]" as a UUID;
\* the digest stands for the string it is computed from
generate_chunk_id(file_path, section, text) ==
    file_path \o << ":" >> \o section \o << ":" >> \o Take(text, ID_TEXT_PREFIX)

\* Path(file_path).parts
NonEmptyParts(segs) == SelectSeq(segs, LAMBDA g : g # << >>)

RECURSIVE IndexOf(_, _, _)
IndexOf(parts, x, i) ==
    IF i > Len(parts) THEN 0
    ELSE IF parts[i] = x THEN i ELSE IndexOf(parts, x, i + 1)

\* str.rsplit('.', 1)[0] of a name ending in .md or .mdx
DropExtension(name) ==
    IF EndsWith(name, << ".", "m", "d" >>) THEN SubSeq(name, 1, Len(name) - 3)
    ELSE IF EndsWith(name, << ".", "m", "d", "x" >>) THEN SubSeq(name, 1, Len(name) - 4)
    ELSE name

\* _file_path_to_url
file_path_to_url(file_path) ==
    LET parts == NonEmptyParts(Split(file_path, << >>))
        k == IndexOf(parts, << "d", "o", "c", "s" >>, 1)
        relative_parts == IF k > 0 THEN SubSeq(parts, k, Len(parts)) ELSE parts
        n == Len(relative_parts)
        url_parts == [i \in 1..n |-> IF i = n THEN DropExtension(relative_parts[i])
                                     ELSE relative_parts[i]]
    IN  << "/" >> \o JoinWith(url_parts, << "/" >>)

\* _get_relative_path: paths are given relative to the project root
get_relative_path(file_path) == file_path

UNKNOWN_CHAPTER == <<"U", "n", "k", "n", "o", "w", "n", " ", "C", "h", "a", "p", "t", "e", "r">>

\* metadata.get('title', metadata.get('sidebar_label', 'Unknown Chapter'));
\* metadata.keys are the keys the front matter sets
chapter_of(metadata) ==
    IF "title" \in metadata.keys THEN metadata.title
    ELSE IF "sidebar_label" \in metadata.keys THEN metadata.sidebar_label
    ELSE UNKNOWN_CHAPTER

\* lines 69-79: the chunks of one section
section_chunks(file_path, chapter, section, max_tokens, overlap) ==
    LET texts == chunk_text(section.text, max_tokens, overlap)
    IN  [i \in 1..Len(texts) |->
            [chunk_id |-> generate_chunk_id(file_path, section.title, texts[i]),
             source_file |-> get_relative_path(file_path),
             chapter |-> chapter,
             section |-> IF section.title # << >> THEN section.title ELSE chapter,
             url |-> file_path_to_url(file_path),
             raw_text |-> texts[i],
             token_count |-> estimate_tokens(texts[i])]]

RECURSIVE AllSectionChunks(_, _, _, _, _)
AllSectionChunks(file_path, chapter, sections, max_tokens, overlap) ==
    IF sections = << >> THEN << >>
    ELSE section_chunks(file_path, chapter, Head(sections), max_tokens, overlap)
             \o AllSectionChunks(file_path, chapter, Tail(sections), max_tokens, overlap)

\* open() or frontmatter.load() raises for a file that is not "ok"
chunk_markdown_body_raises(file) == file.status # "ok"

\* the except clause left out: the failure reaches the caller
chunk_markdown_unguarded(file, max_tokens, overlap) ==
    IF chunk_markdown_body_raises(file)
    THEN [raised |-> TRUE, chunks |-> << >>]
    ELSE [raised |-> FALSE,
          chunks |-> AllSectionChunks(file.path, chapter_of(file.metadata),
                                      split_by_headings(file.content),
                                      max_tokens, overlap)]

\* chunk_markdown
chunk_markdown(file, max_tokens, overlap) ==
    IF chunk_markdown_body_raises(file)
    THEN [raised |-> FALSE, chunks |-> << >>]
    ELSE [raised |-> FALSE,
          chunks |-> AllSectionChunks(file.path, chapter_of(file.metadata),
                                      split_by_headings(file.content),
                                      max_tokens, overlap)]

----------------------------------------------------------------------------
(* Inputs of the synthesizer's pure functions (rag.py) *)

\* stored points a search can return: distinct points, several of one page
CitedPoints ==
    << [url |-> <<"d", "o", "c", "s", "/", "0", "1", "-", "i", "n", "t", "r", "o", "/", "i", "n", "d", "e", "x", ".", "m", "d">>, chapter |-> "Intro", section |-> "Overview"],
       [url |-> <<"d", "o", "c", "s", "/", "0", "1", "-", "i", "n", "t", "r", "o", ".", "m", "d">>, chapter |-> "Intro", section |-> "Goals"],
       [url |-> <<"0", "3", "-", "r", "o", "s", "/", "3", ".", "2", "-", "n", "a", "v", ".", "m", "d">>, chapter |-> "ROS", section |-> "Nav"],
       [url |-> <<"/", "d", "o", "c", "s", "/", "0", "4", "-", "s", "i", "m", ".", "m", "d">>, chapter |-> "Sim", section |-> "Setup"],
       [url |-> <<"d", "o", "c", "s", "/", "0", "5", "-", "a", "r", "m", "/", "i", "n", "d", "e", "x", ".", "m", "d">>, chapter |-> "Arm", section |-> "Joints"],
       [url |-> <<"0", "6", "-", "l", "e", "g", ".", "m", "d">>, chapter |-> "Leg", section |-> "Gait"],
       [url |-> <<"d", "o", "c", "s", "/", "0", "7", "-", "e", "y", "e", ".", "m", "d">>, chapter |-> "Eye", section |-> "Lens"] >>

\* sequences without repetition over S, of length at most n
RECURSIVE InjSeqs(_, _)
InjSeqs(S, n) ==
    IF n = 0 THEN { << >> }
    ELSE { << >> } \cup UNION { { << x >> \o t : t \in InjSeqs(S \ {x}, n - 1) } : x \in S }

\* similarity of the hit at rank i: search results come in descending score
RankScore(i) == 95 - 5 * i

RetrievedAt(r) ==
    [i \in 1..Len(r) |-> [url |-> CitedPoints[r[i]].url,
                          chapter |-> CitedPoints[r[i]].chapter,
                          section |-> CitedPoints[r[i]].section,
                          score |-> RankScore(i)]]

Retrievals == { RetrievedAt(r) : r \in InjSeqs(1..Len(CitedPoints), MaxCited) }

ConfidenceScores == { 0, 50, 70, 90, 100 }

ScoredAt(sc) ==
    [i \in 1..Len(sc) |-> [url |-> CitedPoints[i].url,
                           chapter |-> CitedPoints[i].chapter,
                           section |-> CitedPoints[i].section,
                           score |-> sc[i]]]

ScoredRetrievals ==
    { ScoredAt(sc) : sc \in UNION { [1..k -> ConfidenceScores] : k \in 1..MaxScored } }

UrlPrefixes == { << >>, <<"d", "o", "c", "s", "/">>, <<"/", "d", "o", "c", "s", "/">>, <<"/">> }

UrlSegments == { << >>,
                 <<"0", "1", "-">>,
                 <<"2", ".", "1", "-", "i", "n", "t", "r", "o">>,
                 <<"1">>,
                 <<"i", "n", "d", "e", "x">>,
                 <<"0", "2", "-", "r", "o", "s", "2">>,
                 <<"3", ".", "2", "-", "c", "a", "m", "e", "r", "a", "s">>,
                 <<"0", "3", "-", "p", "e", "r", "c", "e", "p", "t", "i", "o", "n">>,
                 <<"0", "1", "-", "i", "n", "t", "r", "o">>,
                 <<"d", "o", "c", "s">> }

UrlSuffixes == { << >>, <<".", "m", "d">>, <<"/", "i", "n", "d", "e", "x">>, <<"/", "i", "n", "d", "e", "x", ".", "m", "d">>, <<"/">> }

RECURSIVE SegmentLists(_)
SegmentLists(n) ==
    IF n = 0 THEN { << >> }
    ELSE { << >> } \cup { << g >> \o t : g \in UrlSegments, t \in SegmentLists(n - 1) }

RawUrls ==
    { p \o Join(g) \o x : p \in UrlPrefixes, g \in SegmentLists(MaxSegments), x \in UrlSuffixes }

SynthIdle ==
    /\ syn_pc = "off"
    /\ syn_chunks = << >>
    /\ syn_url = << >>
    /\ syn_confidence = Zero
    /\ syn_citations = << >>
    /\ syn_clean = << >>

----------------------------------------------------------------------------
(* services/embeddings.py, services/qdrant.py, services/ingestion.py: ingestion *)

EMBED_BATCH_LIMIT == 96

UPSERT_BATCH_SIZE == 100

\* raw_text of a chunk whose text is empty or blank (text.strip() is falsy)
BlankText == 0

\* chunk i of n of file number f; with dup the second chunk repeats the id of
\* the first (same section, same first 100 characters), with blank the last
\* chunk has no text (a heading without body)
FileChunk(f, i, n, dup, blank) ==
    [chunk_id |-> f * 1000 + (IF dup /\ i = 2 THEN 1 ELSE i),
     source_file |-> f,
     chapter |-> f,
     section |-> f,
     url |-> f,
     raw_text |-> IF blank /\ i = n THEN BlankText ELSE f * 1000 + i,
     token_count |-> i]

FileChunks(f, n, dup, blank) == [i \in 1..n |-> FileChunk(f, i, n, dup, blank)]

\* chunks of the two files of a folder, in either order of discovery
ParsedOrders(folder) ==
    LET first == FileChunks(1, folder.a, folder.dup, FALSE)
        second == FileChunks(2, folder.b, FALSE, folder.blank)
    IN  { first \o second, second \o first }

\* number of chunks of the two files
FolderShapes ==
    { [a |-> 1, b |-> 0, dup |-> FALSE, blank |-> FALSE],
      [a |-> 2, b |-> 1, dup |-> TRUE, blank |-> FALSE],
      [a |-> 1, b |-> 2, dup |-> FALSE, blank |-> TRUE],
      [a |-> EMBED_BATCH_LIMIT, b |-> 1, dup |-> FALSE, blank |-> FALSE],
      [a |-> UPSERT_BATCH_SIZE, b |-> 1, dup |-> TRUE, blank |-> FALSE],
      [a |-> EMBED_BATCH_LIMIT,
       b |-> EMBED_BATCH_LIMIT * (MaxSubBatches - 2) + 1,
       dup |-> FALSE, blank |-> FALSE] }

\* the vector the provider computes for a text
VectorOf(text) == [embeds |-> text]

\* embeddings.py 142: valid_texts
valid_texts(texts) == SelectSeq(texts, LAMBDA t : t # BlankText)

TextsOf(cs) == [i \in 1..Len(cs) |-> cs[i].raw_text]

\* embeddings.py 192: texts[i:i + batch_size], i counted from 1
sub_batch(texts, i) ==
    SubSeq(texts, i, Min(i + EMBED_BATCH_LIMIT - 1, Len(texts)))

\* response.embeddings: one vector per text, in the order of the texts
EmbeddingsOf(texts) == [i \in 1..Len(texts) |-> VectorOf(texts[i])]

\* the point id drawn afresh in every invocation
point_struct_fresh_id(chunk, embedding) ==
    [id |-> chunk.chunk_id + 100000 * (ing_runs + 1),
     vector |-> embedding,
     payload |-> [source_file |-> chunk.source_file, chapter |-> chunk.chapter,
                  section |-> chunk.section, url |-> chunk.url,
                  raw_text |-> chunk.raw_text, token_count |-> chunk.token_count]]

\* qdrant.py 156-167: PointStruct of a chunk
point_struct(chunk, embedding) ==
    [id |-> chunk.chunk_id,
     vector |-> embedding,
     payload |-> [source_file |-> chunk.source_file, chapter |-> chunk.chapter,
                  section |-> chunk.section, url |-> chunk.url,
                  raw_text |-> chunk.raw_text, token_count |-> chunk.token_count]]

\* client.upsert: a point replaces the stored point of its id; of two points of
\* one id in the batch the later stays
upsert_points(idx, points) ==
    LET ids == { points[i].id : i \in 1..Len(points) }
        last(id) == CHOOSE i \in 1..Len(points) :
                        /\ points[i].id = id
                        /\ \A j \in (i + 1)..Len(points) : points[j].id # id
    IN  { p \in idx : p.id \notin ids } \cup { points[last(id)] : id \in ids }

\* the vectors counted from the start of every batch
upsert_batch_shifted(cs, embeddings, i) ==
    [j \in 1..(Min(i + UPSERT_BATCH_SIZE - 1, Len(cs)) - i + 1) |->
        point_struct(cs[i + j - 1], embeddings[j])]

\* ingestion.py 170-171 and qdrant.py 155-173: chunk k with embedding k, then
\* points[i:i + batch_size], i counted from 1
upsert_batch(cs, embeddings, i) ==
    [j \in 1..(Min(i + UPSERT_BATCH_SIZE - 1, Len(cs)) - i + 1) |->
        point_struct(cs[i + j - 1], embeddings[i + j - 1])]

EmbedErrors == { "api_error", "other_error" }

UpsertErrors == { "unexpected_response", "other_error" }

NoReport == [status |-> NoValue, chunks_ingested |-> 0]

NoFolder == [a |-> 0, b |-> 0, dup |-> FALSE, blank |-> FALSE]

\* ingestion.py 244-256 and api/v1/ingest.py 126-131: what the invocation reports
ingestion_report(entry, parsed, chunks_stored) ==
    IF entry = "run_full_ingestion"
    THEN [status |-> IF chunks_stored = parsed THEN "success" ELSE "partial_success",
          chunks_ingested |-> chunks_stored]
    ELSE [status |-> "success", chunks_ingested |-> parsed]

\* ingestion.py 224-233 and api/v1/ingest.py 108-115: nothing was parsed
empty_report(entry) ==
    IF entry = "run_full_ingestion"
    THEN [status |-> "failed", chunks_ingested |-> 0]
    ELSE [status |-> "warning", chunks_ingested |-> 0]

InvocationIdle ==
    /\ ing_pc = "idle"
    /\ ing_entry = NoValue
    /\ ing_force = FALSE
    /\ ing_chunks = << >>
    /\ ing_embeddings = << >>
    /\ ing_offset = 0
    /\ ing_submitted = << >>
    /\ ing_failed_at = 0
    /\ ing_written = 0
    /\ ing_stored = 0
    /\ ing_report = NoReport

IngestIdle ==
    /\ InvocationIdle
    /\ collection_exists = TRUE
    /\ index = {}
    /\ ing_folder = NoFolder
    /\ ing_runs = 0
    /\ ing_whole_runs = 0
    /\ ing_index_before = {}

----------------------------------------------------------------------------
(* services/database.py and api/v1/chat.py: chat sessions *)

\* ChatRequest.session_id is None
NoSession == 0

\* a well-formed session id that no row carries
UnknownSession == 99

\* current_user of a chat request, NoValue for a guest
ChatUsers == { NoValue, "u1", "u2" }

\* database.py 133-139: the row create_session adds
ChatSession(session_id, user_id) ==
    [session_id |-> session_id, user_id |-> user_id, message_count |-> 0]

SessionIds(rows) == { row.session_id : row \in rows }

NoSessionResponse == [status |-> 0, session_id |-> NoSession]

NoSessionRequest == [session_id |-> NoSession, user_id |-> NoValue]

\* database.py 194-207: update_session_activity
update_session_activity(rows, session_id) ==
    { IF row.session_id = session_id
      THEN [row EXCEPT !.message_count = @ + 1] ELSE row : row \in rows }

SessionIdle ==
    /\ db_available = TRUE
    /\ sessions = {}
    /\ uuid_count = 0
    /\ ses_pc = "off"
    /\ ses_request = NoSessionRequest
    /\ ses_session_id = NoSession
    /\ ses_before = {}
    /\ ses_response = NoSessionResponse
    /\ ses_requests = 0

SignupIdle ==
    /\ users = {}
    /\ signup = << >>

AccountIdle == SessionIdle /\ SignupIdle

----------------------------------------------------------------------------
(* Inputs of the chunker: documents after frontmatter.load (content stripped) *)

Blocks ==
    { <<"a", "a", "a", "a", "a", "a", "a">>,
      <<"b", "b", "b", "b", "b", "b", "b", "b", "b", "b", "b">>,
      <<"c", "c", "c">>,
      <<"d", "d", "d", "d", ".", " ", "e", "e", "e", "e", ".", " ", "f", "f", "f", "f", ".">>,
      <<"g", "g", "g", "g", "g", "g", "g", "g", "g", "g", "g", "g", "g", "g", "g", "g", ".">>,
      <<"#", "#", " ", "T">>,
      <<"#", "#", " ", "U">> }

RECURSIVE BlockLists(_)
BlockLists(n) ==
    IF n = 0 THEN { << >> }
    ELSE { << >> } \cup { << b >> \o t : b \in Blocks, t \in BlockLists(n - 1) }

Contents == { JoinWith(bs, ParagraphBreak) : bs \in BlockLists(MaxBlocks) }

FileStatuses == { "ok", "unreadable", "unparseable" }

KnownFiles ==
    << [path |-> <<"d", "o", "c", "s", "/", "a", ".", "m", "d">>,
        status |-> "ok",
        metadata |-> [keys |-> {"title"}, title |-> <<"A", "l", "p", "h", "a">>, sidebar_label |-> << >>],
        content |-> <<"#", "#", " ", "T", "\n", "\n", "a", "a", "a", "a", "a", "a", "a", "\n", "\n", "b", "b", "b", "b", "b", "b", "b", "b", "b", "b", "b">>],
       [path |-> <<"d", "o", "c", "s", "/", "0", "1", "-", "b", "/", "i", "n", "d", "e", "x", ".", "m", "d">>,
        status |-> "ok",
        metadata |-> [keys |-> {"sidebar_label"}, title |-> << >>, sidebar_label |-> <<"B", "e", "t", "a">>],
        content |-> <<"c", "c", "c">>],
       [path |-> <<"d", "o", "c", "s", "/", "c", ".", "m", "d", "x">>,
        status |-> "ok",
        metadata |-> [keys |-> {}, title |-> << >>, sidebar_label |-> << >>],
        content |-> <<"d", "d", "d", "d", ".", " ", "e", "e", "e", "e", ".", " ", "f", "f", "f", "f", ".">>] >>

\* a folder of one readable file of any drawn content
SingleFileFolders == { << [KnownFiles[1] EXCEPT !.content = c] >> : c \in Contents }

\* folders of the known files in any order of discovery, each readable or not
MixedFolders ==
    UNION { { [i \in 1..Len(r) |-> [KnownFiles[r[i]] EXCEPT !.status = st[i]]]
              : st \in [1..Len(r) -> FileStatuses] }
            : r \in InjSeqs(1..Len(KnownFiles), MaxFiles) }

MaxTokensChoices == { 2, 3 }

OverlapChoices == { 0, 50 }

ChunkIdle ==
    /\ md_files = << >>
    /\ cfg_max_tokens = 0
    /\ cfg_overlap = 0
    /\ parse_pc = "off"
    /\ all_chunks = << >>
    /\ parsed_files = 0
    /\ failed_files = << >>
    /\ chunk_results = << >>

----------------------------------------------------------------------------
(* State machine of the chat handler, one request at a time *)

TypeOK ==
    /\ llm_available \in BOOLEAN
    /\ emb_available \in BOOLEAN
    /\ qdrant_available \in BOOLEAN
    /\ pc \in {"idle", "classify", "clarify", "embed", "search", "generate", "done"}
    /\ top_k \in 1..MaxTopK
    /\ awaitable \in BOOLEAN
    /\ query_embedding \in BOOLEAN
    /\ failed \subseteq {"classify", "clarify", "embed", "search", "generate"}

ChatIdle ==
    /\ llm_available = TRUE
    /\ emb_available = TRUE
    /\ qdrant_available = TRUE
    /\ pc = "idle"
    /\ query = << >>
    /\ top_k = 1
    /\ awaitable = FALSE
    /\ classification = NoClassification
    /\ query_embedding = FALSE
    /\ chunks = << >>
    /\ response = NoResponse
    /\ calls = NoCalls
    /\ failed = {}
    /\ classify_out = NoClassifyOut
    /\ clarify_out = NoClarifyOut

Init ==
    /\ AccountIdle
    /\ ChatIdle
    /\ SynthIdle
    /\ ChunkIdle
    /\ IngestIdle

\* chat.py 122-136: a validated request arrives; fast-path greeting
ReceiveQuery ==
    /\ pc = "idle"
    /\ \E q \in Queries, k \in 1..MaxTopK, aw \in BOOLEAN :
         /\ query' = q
         /\ top_k' = k
         /\ awaitable' = aw
         /\ IF is_fast_path_greeting(q)
            THEN /\ response' = ChatResponse(GREETING_RESPONSE, << >>, One)
                 /\ pc' = "done"
            ELSE /\ response' = NoResponse
                 /\ pc' = "classify"
    /\ classification' = NoClassification
    /\ query_embedding' = FALSE
    /\ chunks' = << >>
    /\ calls' = NoCalls
    /\ failed' = {}
    /\ classify_out' = NoClassifyOut
    /\ clarify_out' = NoClarifyOut
    /\ UNCHANGED << llm_available, emb_available, qdrant_available >>
    /\ UNCHANGED otherVars

\* chat.py 138-168: classification and the branches that need no further call
Classify ==
    /\ pc = "classify"
    /\ \E out \in (IF awaitable THEN ClassifyOutcomes
                  ELSE PlainClassifyOutcomes) :
         LET issued == llm_call_issued(awaitable, llm_available)
             r == classify_query(awaitable, IF issued THEN out ELSE NoClassifyOut)
         IN  /\ calls' = [calls EXCEPT !.classify = @ + (IF issued THEN 1 ELSE 0)]
             /\ failed' = IF issued /\ out.kind # "text"
                          THEN failed \cup {"classify"} ELSE failed
             /\ llm_available' = llm_available_after(awaitable, llm_available, out.kind)
             /\ classify_out' = IF issued THEN out ELSE NoClassifyOut
             /\ IF r.raises
                THEN /\ classification' = classification
                     /\ response' = HTTP_500
                     /\ pc' = "done"
                ELSE /\ classification' = r.result
                     /\ CASE chat_branch(r.result.label) = "greeting" ->
                               /\ response' = ChatResponse(GREETING_RESPONSE, << >>, One)
                               /\ pc' = "done"
                          [] chat_branch(r.result.label) = "off_topic" ->
                               /\ response' = ChatResponse(OFF_TOPIC_RESPONSE, << >>, Zero)
                               /\ pc' = "done"
                          [] chat_branch(r.result.label) = "clarify" ->
                               /\ response' = response
                               /\ pc' = "clarify"
                          [] OTHER ->
                               /\ response' = response
                               /\ pc' = "embed"
    /\ UNCHANGED << emb_available, qdrant_available, query, top_k, awaitable,
                    query_embedding, chunks, clarify_out >>
    /\ UNCHANGED otherVars

\* chat.py 160-168: clarification for an AMBIGUOUS query
Clarify ==
    /\ pc = "clarify"
    /\ \E out \in ClarifyOutcomes :
         LET issued == llm_call_issued(awaitable, llm_available)
             r == generate_clarification(awaitable, IF issued THEN out ELSE NoClarifyOut)
         IN  /\ calls' = [calls EXCEPT !.clarify = @ + (IF issued THEN 1 ELSE 0)]
             /\ failed' = IF issued /\ out.kind # "text"
                          THEN failed \cup {"clarify"} ELSE failed
             /\ llm_available' = llm_available_after(awaitable, llm_available, out.kind)
             /\ clarify_out' = IF issued THEN out ELSE NoClarifyOut
             /\ response' = IF r.raises THEN HTTP_500
                            ELSE ChatResponse(r.text, << >>, Half)
    /\ pc' = "done"
    /\ UNCHANGED << emb_available, qdrant_available, query, top_k, awaitable,
                    classification, query_embedding, chunks, classify_out >>
    /\ UNCHANGED otherVars

\* rag.py 83-92 with embeddings.py 86-112: the query embedding
Embed ==
    /\ pc = "embed"
    /\ IF ~emb_available
       THEN /\ response' = Decline
            /\ pc' = "done"
            /\ UNCHANGED << emb_available, query_embedding, calls, failed >>
       ELSE \E out \in EmbedOutcomes :
              /\ calls' = [calls EXCEPT !.embed = @ + 1]
              /\ emb_available' = (out # "api_error")
              /\ failed' = IF out = "ok" THEN failed ELSE failed \cup {"embed"}
              /\ query_embedding' = (out = "ok")
              /\ pc' = after_embed(out)
              /\ response' = IF after_embed(out) = "done" THEN Decline ELSE response
    /\ UNCHANGED << llm_available, qdrant_available, query, top_k, awaitable,
                    classification, chunks, classify_out, clarify_out >>
    /\ UNCHANGED otherVars

\* rag.py 94-111 with qdrant.py 206-262 and chat.py 177-186: the vector search
Search ==
    /\ pc = "search"
    /\ \/ /\ ~qdrant_available
          /\ chunks' = << >>
          /\ UNCHANGED << qdrant_available, calls, failed >>
       \/ /\ qdrant_available
          /\ \E err \in SearchErrors :
               /\ qdrant_available' = (err # "unexpected_response")
               /\ chunks' = << >>
               /\ calls' = [calls EXCEPT !.search = @ + 1]
               /\ failed' = failed \cup {"search"}
       \/ /\ qdrant_available
          /\ \E r \in SearchResults(Min(Min(top_k, QDRANT_MAX_LIMIT), Cardinality(Points))) :
               /\ chunks' = r
               /\ calls' = [calls EXCEPT !.search = @ + 1]
               /\ UNCHANGED << qdrant_available, failed >>
    /\ IF chunks' = << >>
       THEN /\ response' = Decline
            /\ pc' = "done"
       ELSE /\ response' = response
            /\ pc' = "generate"
    /\ UNCHANGED << llm_available, emb_available, query, top_k, awaitable,
                    classification, query_embedding, classify_out, clarify_out >>
    /\ UNCHANGED otherVars

\* chat.py 188-214 with rag.py 164-266: answer generation
Generate ==
    /\ pc = "generate"
    /\ \E out \in GenerateOutcomes :
         LET issued == generate_answer_calls_llm(query, chunks) /\ llm_available
         IN  /\ response' = generate_answer(query, chunks, llm_available, out)
             /\ calls' = [calls EXCEPT !.generate = @ + (IF issued THEN 1 ELSE 0)]
             /\ failed' = IF issued /\ out # "text"
                          THEN failed \cup {"generate"} ELSE failed
             /\ llm_available' = IF issued /\ out = "raise" THEN FALSE
                                 ELSE llm_available
    /\ pc' = "done"
    /\ UNCHANGED << emb_available, qdrant_available, query, top_k, awaitable,
                    classification, query_embedding, chunks, classify_out,
                    clarify_out >>
    /\ UNCHANGED otherVars

\* the handler returns: the response goes to the client, the request's locals die
Respond ==
    /\ pc = "done"
    /\ pc' = "idle"
    /\ query' = << >>
    /\ top_k' = 1
    /\ awaitable' = FALSE
    /\ classification' = NoClassification
    /\ query_embedding' = FALSE
    /\ chunks' = << >>
    /\ response' = NoResponse
    /\ calls' = NoCalls
    /\ failed' = {}
    /\ classify_out' = NoClassifyOut
    /\ clarify_out' = NoClarifyOut
    /\ UNCHANGED << llm_available, emb_available, qdrant_available >>
    /\ UNCHANGED otherVars

Next ==
    \/ ReceiveQuery
    \/ Classify
    \/ Clarify
    \/ Embed
    \/ Search
    \/ Generate
    \/ Respond

Spec == Init /\ [][Next]_vars

----------------------------------------------------------------------------
(* The synthesizer's pure functions applied to drawn inputs, in the order of *)
(* rag.py generate_answer: confidence, citations (which normalise urls)      *)

SynthInit ==
    /\ AccountIdle
    /\ ChatIdle
    /\ ChunkIdle
    /\ IngestIdle
    /\ syn_pc = "confidence"
    /\ \/ /\ syn_chunks \in Retrievals \cup ScoredRetrievals
          /\ syn_url = << >>
       \/ /\ syn_chunks = << >>
          /\ syn_url \in RawUrls
    /\ syn_confidence = Zero
    /\ syn_citations = << >>
    /\ syn_clean = << >>

\* rag.py 203: confidence = self.check_confidence(chunks)
CheckConfidence ==
    /\ syn_pc = "confidence"
    /\ syn_confidence' = check_confidence(syn_chunks)
    /\ syn_pc' = "citations"
    /\ UNCHANGED << syn_chunks, syn_url, syn_citations, syn_clean >>
    /\ UNCHANGED << chatVars, chunkVars, ingestVars, accountVars >>

\* rag.py 250: citations = self._build_citations(chunks)
BuildCitations ==
    /\ syn_pc = "citations"
    /\ syn_citations' = build_citations(syn_chunks)
    /\ syn_pc' = "url"
    /\ UNCHANGED << syn_chunks, syn_url, syn_confidence, syn_clean >>
    /\ UNCHANGED << chatVars, chunkVars, ingestVars, accountVars >>

\* rag.py 310: url = self._clean_citation_url(url)
CleanCitationUrl ==
    /\ syn_pc = "url"
    /\ syn_clean' = clean_citation_url(syn_url)
    /\ syn_pc' = "done"
    /\ UNCHANGED << syn_chunks, syn_url, syn_confidence, syn_citations >>
    /\ UNCHANGED << chatVars, chunkVars, ingestVars, accountVars >>

SynthNext ==
    \/ CheckConfidence
    \/ BuildCitations
    \/ CleanCitationUrl

SynthSpec == SynthInit /\ [][SynthNext]_vars

----------------------------------------------------------------------------
(* services/ingestion.py parse_docs_folder: the loop over the files found *)

ChunkInit ==
    /\ AccountIdle
    /\ ChatIdle
    /\ SynthIdle
    /\ IngestIdle
    /\ md_files \in SingleFileFolders \cup MixedFolders
    /\ cfg_max_tokens \in MaxTokensChoices
    /\ cfg_overlap \in OverlapChoices
    /\ parse_pc = "files"
    /\ all_chunks = << >>
    /\ parsed_files = 0
    /\ failed_files = << >>
    /\ chunk_results = << >>

\* ingestion.py 69-85: one iteration, chunk_markdown on the next file
ChunkNextFile ==
    /\ parse_pc = "files"
    /\ Len(chunk_results) < Len(md_files)
    /\ LET md_file == md_files[Len(chunk_results) + 1]
           r == chunk_markdown(md_file, cfg_max_tokens, cfg_overlap)
       IN  /\ chunk_results' = Append(chunk_results,
                                      [raised |-> r.raised, count |-> Len(r.chunks)])
           /\ IF r.raised
              THEN /\ failed_files' = Append(failed_files, md_file.path)
                   /\ UNCHANGED << all_chunks, parsed_files >>
              ELSE /\ all_chunks' = all_chunks \o r.chunks
                   /\ parsed_files' = parsed_files + 1
                   /\ UNCHANGED failed_files
    /\ UNCHANGED << md_files, cfg_max_tokens, cfg_overlap, parse_pc >>
    /\ UNCHANGED << chatVars, synVars, ingestVars, accountVars >>

\* ingestion.py 87-95: return all_chunks
ReturnChunks ==
    /\ parse_pc = "files"
    /\ Len(chunk_results) = Len(md_files)
    /\ parse_pc' = "done"
    /\ UNCHANGED << md_files, cfg_max_tokens, cfg_overlap, all_chunks,
                    parsed_files, failed_files, chunk_results >>
    /\ UNCHANGED << chatVars, synVars, ingestVars, accountVars >>

ChunkNext ==
    \/ ChunkNextFile
    \/ ReturnChunks

ChunkSpec == ChunkInit /\ [][ChunkNext]_vars

----------------------------------------------------------------------------
(* classify_query on every response text, under either binding of generate *)

ClassifierInit ==
    /\ AccountIdle
    /\ SynthIdle
    /\ ChunkIdle
    /\ IngestIdle
    /\ llm_available \in BOOLEAN
    /\ emb_available = TRUE
    /\ qdrant_available = TRUE
    /\ pc = "classify"
    /\ query \in { q \in Queries : ~is_fast_path_greeting(q) }
    /\ top_k \in 1..MaxTopK
    /\ awaitable \in BOOLEAN
    /\ classification = NoClassification
    /\ query_embedding = FALSE
    /\ chunks = << >>
    /\ response = NoResponse
    /\ calls = NoCalls
    /\ failed = {}
    /\ classify_out = NoClassifyOut
    /\ clarify_out = NoClarifyOut

\* chat.py 138-168 with guardrails.py 168-197: as Classify, the response text
\* being whatever the provider wrote also under llm.py's own generate
ClassifyAnyResponse ==
    /\ pc = "classify"
    /\ \E out \in ClassifyOutcomes :
         LET issued == llm_call_issued(awaitable, llm_available)
             r == classify_query(awaitable, IF issued THEN out ELSE NoClassifyOut)
         IN  /\ calls' = [calls EXCEPT !.classify = @ + (IF issued THEN 1 ELSE 0)]
             /\ failed' = IF issued /\ out.kind # "text"
                          THEN failed \cup {"classify"} ELSE failed
             /\ llm_available' = llm_available_after(awaitable, llm_available, out.kind)
             /\ classify_out' = IF issued THEN out ELSE NoClassifyOut
             /\ IF r.raises
                THEN /\ classification' = classification
                     /\ response' = HTTP_500
                     /\ pc' = "done"
                ELSE /\ classification' = r.result
                     /\ CASE chat_branch(r.result.label) = "greeting" ->
                               /\ response' = ChatResponse(GREETING_RESPONSE, << >>, One)
                               /\ pc' = "done"
                          [] chat_branch(r.result.label) = "off_topic" ->
                               /\ response' = ChatResponse(OFF_TOPIC_RESPONSE, << >>, Zero)
                               /\ pc' = "done"
                          [] chat_branch(r.result.label) = "clarify" ->
                               /\ response' = response
                               /\ pc' = "clarify"
                          [] OTHER ->
                               /\ response' = response
                               /\ pc' = "embed"
    /\ UNCHANGED << emb_available, qdrant_available, query, top_k, awaitable,
                    query_embedding, chunks, clarify_out >>
    /\ UNCHANGED otherVars

ClassifierSpec == ClassifierInit /\ [][ClassifyAnyResponse]_vars

----------------------------------------------------------------------------
(* Ingestion invocations, one at a time: run_full_ingestion (scripts, CLI) *)
(* and the admin endpoint trigger_ingestion                                *)

IngestInit ==
    /\ AccountIdle
    /\ ChatIdle
    /\ SynthIdle
    /\ ChunkIdle
    /\ InvocationIdle
    /\ collection_exists = TRUE
    /\ index = {}
    /\ ing_folder \in FolderShapes
    /\ ing_runs = 0
    /\ ing_whole_runs = 0
    /\ ing_index_before = {}

\* the rest of the model does not take part in an ingestion
IngestFrame ==
    UNCHANGED << llm_available, requestVars, synVars, chunkVars, ing_folder,
                 accountVars >>

\* ingestion.py 189-211, api/v1/ingest.py 64-95: an invocation starts
StartIngestion ==
    /\ ing_pc = "idle"
    /\ ing_runs < MaxRuns
    /\ \E entry \in {"run_full_ingestion", "trigger_ingestion"}, force \in BOOLEAN :
         /\ entry = "trigger_ingestion" => ~force
         /\ ing_entry' = entry
         /\ ing_force' = force
         /\ ing_pc' = IF force THEN "reindex" ELSE "parse"
    /\ UNCHANGED << emb_available, qdrant_available, collection_exists, index,
                    ing_chunks, ing_embeddings, ing_offset, ing_submitted,
                    ing_failed_at, ing_written, ing_stored, ing_report, ing_runs,
                    ing_whole_runs >>
    /\ ing_index_before' = index
    /\ IngestFrame

\* ingestion.py 213-218 with qdrant.py 76-123 and 286-302: delete_collection
\* then create_collection, their results ignored
Reindex ==
    /\ ing_pc = "reindex"
    /\ IF ~qdrant_available
       THEN UNCHANGED << qdrant_available, collection_exists, index, ing_whole_runs >>
       ELSE \E deleted \in BOOLEAN, created \in BOOLEAN :
              /\ ~collection_exists => ~deleted
              /\ index' = IF deleted THEN {} ELSE index
              /\ ing_whole_runs' = IF deleted THEN 0 ELSE ing_whole_runs
              /\ collection_exists' = ((collection_exists /\ ~deleted) \/ created)
              /\ qdrant_available' = created
    /\ ing_pc' = "parse"
    /\ UNCHANGED << emb_available, ing_entry, ing_force, ing_chunks, ing_embeddings,
                    ing_offset, ing_submitted, ing_failed_at, ing_written,
                    ing_stored, ing_report, ing_runs >>
    /\ UNCHANGED ing_index_before
    /\ IngestFrame

\* ingestion.py 222-235, api/v1/ingest.py 106-115: parse_docs_folder
ParseDocs ==
    /\ ing_pc = "parse"
    /\ \E parsed \in ParsedOrders(ing_folder) :
         /\ ing_chunks' = parsed
         /\ IF parsed = << >>
            THEN /\ ing_report' = empty_report(ing_entry)
                 /\ ing_pc' = "done"
                 /\ ing_offset' = ing_offset
            ELSE /\ ing_report' = ing_report
                 /\ ing_pc' = "embed"
                 /\ ing_offset' = 1
    /\ UNCHANGED << emb_available, qdrant_available, collection_exists, index,
                    ing_entry, ing_force, ing_embeddings, ing_submitted,
                    ing_failed_at, ing_written, ing_stored, ing_runs,
                    ing_whole_runs >>
    /\ UNCHANGED ing_index_before
    /\ IngestFrame

\* what embed_and_store does once generate_embeddings_batch returned None
\* (ingestion.py 166-168): it returns 0
EmbeddingsMissing ==
    /\ ing_embeddings' = << >>
    /\ ing_stored' = 0
    /\ ing_pc' = "report"
    /\ ing_offset' = ing_offset

\* ingestion.py 156-168 with embeddings.py 114-209: generate_embeddings_batch,
\* one client.embed call per step
EmbedBatch ==
    /\ ing_pc = "embed"
    /\ LET valid == valid_texts(TextsOf(ing_chunks))
       IN  \/ /\ ~emb_available \/ valid = << >>
              /\ EmbeddingsMissing
              /\ UNCHANGED << emb_available, ing_submitted, ing_failed_at >>
           \/ /\ emb_available /\ valid # << >>
              /\ Len(valid) <= EMBED_BATCH_LIMIT
              /\ ing_submitted' = << valid >>
              /\ \/ /\ ing_embeddings' = EmbeddingsOf(valid)
                    /\ ing_pc' = "upsert"
                    /\ ing_offset' = 1
                    /\ UNCHANGED << emb_available, ing_failed_at, ing_stored >>
                 \/ \E err \in EmbedErrors :
                      /\ emb_available' = (err # "api_error")
                      /\ ing_failed_at' = 1
                      /\ EmbeddingsMissing
           \/ /\ emb_available /\ valid # << >>
              /\ Len(valid) > EMBED_BATCH_LIMIT
              /\ ing_submitted' = Append(ing_submitted, sub_batch(valid, ing_offset))
              /\ \/ /\ ing_embeddings' = ing_embeddings
                                           \o EmbeddingsOf(sub_batch(valid, ing_offset))
                    /\ IF ing_offset + EMBED_BATCH_LIMIT > Len(valid)
                       THEN ing_pc' = "upsert" /\ ing_offset' = 1
                       ELSE ing_pc' = "embed"
                            /\ ing_offset' = ing_offset + EMBED_BATCH_LIMIT
                    /\ UNCHANGED << emb_available, ing_failed_at, ing_stored >>
                 \/ /\ ing_failed_at' = Len(ing_submitted) + 1
                    /\ EmbeddingsMissing
                    /\ UNCHANGED emb_available
    /\ UNCHANGED << qdrant_available, collection_exists, index, ing_entry, ing_force,
                    ing_chunks, ing_written, ing_report, ing_runs, ing_whole_runs >>
    /\ UNCHANGED ing_index_before
    /\ IngestFrame

\* what embed_and_store does once upsert_chunks returned False or raised
\* (ingestion.py 181-187): it returns 0
UpsertFailed ==
    /\ ing_stored' = 0
    /\ ing_pc' = "report"
    /\ UNCHANGED << index, ing_written, ing_offset, ing_whole_runs >>

\* ingestion.py 170-187 with qdrant.py 125-185: upsert_chunks, one
\* client.upsert call per step
UpsertBatch ==
    /\ ing_pc = "upsert"
    /\ \/ /\ ing_offset = 1
          /\ ~qdrant_available
          /\ UpsertFailed
          /\ UNCHANGED qdrant_available
       \/ /\ ing_offset = 1
          /\ qdrant_available
          /\ Len(ing_embeddings) < Len(ing_chunks)
          /\ UpsertFailed
          /\ UNCHANGED qdrant_available
       \/ /\ qdrant_available
          /\ Len(ing_embeddings) >= Len(ing_chunks)
          /\ \/ /\ collection_exists
                /\ index' = upsert_points(index,
                                upsert_batch(ing_chunks, ing_embeddings, ing_offset))
                /\ ing_written' = ing_written
                       + Len(upsert_batch(ing_chunks, ing_embeddings, ing_offset))
                /\ IF ing_offset + UPSERT_BATCH_SIZE > Len(ing_chunks)
                   THEN /\ ing_stored' = Len(ing_chunks)
                        /\ ing_pc' = "report"
                        /\ ing_offset' = ing_offset
                        /\ ing_whole_runs' = ing_whole_runs + 1
                   ELSE /\ ing_stored' = ing_stored
                        /\ ing_pc' = "upsert"
                        /\ ing_offset' = ing_offset + UPSERT_BATCH_SIZE
                        /\ ing_whole_runs' = ing_whole_runs
                /\ UNCHANGED qdrant_available
             \/ \E err \in UpsertErrors :
                  /\ ~collection_exists => err = "unexpected_response"
                  /\ qdrant_available' = (err # "unexpected_response")
                  /\ UpsertFailed
    /\ UNCHANGED << emb_available, collection_exists, ing_entry, ing_force,
                    ing_chunks, ing_embeddings, ing_submitted, ing_failed_at,
                    ing_report, ing_runs >>
    /\ UNCHANGED ing_index_before
    /\ IngestFrame

\* ingestion.py 242-256, api/v1/ingest.py 119-131: the result of the invocation
Report ==
    /\ ing_pc = "report"
    /\ ing_report' = ingestion_report(ing_entry, Len(ing_chunks), ing_stored)
    /\ ing_pc' = "done"
    /\ UNCHANGED << emb_available, qdrant_available, collection_exists, index,
                    ing_entry, ing_force, ing_chunks, ing_embeddings, ing_offset,
                    ing_submitted, ing_failed_at, ing_written, ing_stored,
                    ing_runs, ing_whole_runs >>
    /\ UNCHANGED ing_index_before
    /\ IngestFrame

\* the invocation returns, its locals die
FinishIngestion ==
    /\ ing_pc = "done"
    /\ ing_runs' = ing_runs + 1
    /\ ing_pc' = "idle"
    /\ ing_entry' = NoValue
    /\ ing_force' = FALSE
    /\ ing_chunks' = << >>
    /\ ing_embeddings' = << >>
    /\ ing_offset' = 0
    /\ ing_submitted' = << >>
    /\ ing_failed_at' = 0
    /\ ing_written' = 0
    /\ ing_stored' = 0
    /\ ing_report' = NoReport
    /\ UNCHANGED << emb_available, qdrant_available, collection_exists, index,
                    ing_whole_runs >>
    /\ UNCHANGED ing_index_before
    /\ IngestFrame

IngestNext ==
    \/ StartIngestion
    \/ Reindex
    \/ ParseDocs
    \/ EmbedBatch
    \/ UpsertBatch
    \/ Report
    \/ FinishIngestion

IngestSpec == IngestInit /\ [][IngestNext]_vars

----------------------------------------------------------------------------
(* Session management of the chat handler, one request at a time *)

SessionInit ==
    /\ ChatIdle
    /\ SynthIdle
    /\ ChunkIdle
    /\ IngestIdle
    /\ SignupIdle
    /\ db_available \in BOOLEAN
    /\ sessions = {}
    /\ uuid_count = 0
    /\ ses_pc = "idle"
    /\ ses_request = NoSessionRequest
    /\ ses_session_id = NoSession
    /\ ses_before = {}
    /\ ses_response = NoSessionResponse
    /\ ses_requests = 0

SessionFrame == UNCHANGED << chatVars, synVars, chunkVars, ingestVars, authVars >>

\* chat.py 61-102: a chat request arrives with or without a session id
ReceiveChat ==
    /\ ses_pc = "idle"
    /\ ses_requests < MaxRequests
    /\ \E sid \in {NoSession, UnknownSession} \cup (1..uuid_count), u \in ChatUsers :
         /\ ses_request' = [session_id |-> sid, user_id |-> u]
         /\ ses_session_id' = sid
         /\ ses_pc' = IF sid # NoSession THEN "lookup" ELSE "create"
    /\ ses_before' = sessions
    /\ UNCHANGED << db_available, sessions, uuid_count, ses_response, ses_requests >>
    /\ SessionFrame

\* chat.py 104-106 with database.py 157-179: get_session_by_id
GetSessionById ==
    /\ ses_pc = "lookup"
    /\ \E sql_error \in BOOLEAN :
         LET existing_session == /\ db_available
                                 /\ ~sql_error
                                 /\ ses_session_id \in SessionIds(sessions)
         IN  ses_pc' = IF existing_session THEN "answer" ELSE "create"
    /\ UNCHANGED << db_available, sessions, uuid_count, ses_request, ses_session_id,
                    ses_before, ses_response, ses_requests >>
    /\ SessionFrame

\* chat.py 107-120 with database.py 118-155: create_session, then the
\* temporary id when it returned None
CreateSession ==
    /\ ses_pc = "create"
    /\ \/ /\ ~db_available
          /\ ses_session_id' = uuid_count + 1
          /\ uuid_count' = uuid_count + 1
          /\ UNCHANGED << db_available, sessions >>
       \/ /\ db_available
          /\ ses_session_id' = uuid_count + 1
          /\ uuid_count' = uuid_count + 1
          /\ sessions' = sessions \cup
                           { ChatSession(uuid_count + 1, ses_request.user_id) }
          /\ UNCHANGED db_available
       \/ /\ db_available
          /\ db_available' = FALSE
          /\ ses_session_id' = uuid_count + 2
          /\ uuid_count' = uuid_count + 2
          /\ UNCHANGED sessions
    /\ ses_pc' = "answer"
    /\ UNCHANGED << ses_request, ses_before, ses_response, ses_requests >>
    /\ SessionFrame

\* chat.py 122-214: the answer carries session_id; a synthesized answer is
\* logged against the session first (update_session_activity, log_query)
AnswerChat ==
    /\ ses_pc = "answer"
    /\ \E synthesized \in BOOLEAN, sql_error \in BOOLEAN :
         sessions' = IF synthesized /\ db_available /\ ~sql_error
                     THEN update_session_activity(sessions, ses_session_id)
                     ELSE sessions
    /\ ses_response' = [status |-> 200, session_id |-> ses_session_id]
    /\ ses_pc' = "done"
    /\ UNCHANGED << db_available, uuid_count, ses_request, ses_session_id,
                    ses_before, ses_requests >>
    /\ SessionFrame

\* the handler has returned
FinishChat ==
    /\ ses_pc = "done"
    /\ ses_pc' = "idle"
    /\ ses_requests' = ses_requests + 1
    /\ ses_request' = NoSessionRequest
    /\ ses_session_id' = NoSession
    /\ ses_before' = {}
    /\ ses_response' = NoSessionResponse
    /\ UNCHANGED << db_available, sessions, uuid_count >>
    /\ SessionFrame

SessionNext ==
    \/ ReceiveChat
    \/ GetSessionById
    \/ CreateSession
    \/ AnswerChat
    \/ FinishChat

SessionSpec == SessionInit /\ [][SessionNext]_vars

-----------------------------------------------------------------------------
(* Signup: concurrent AuthService.create_user calls over the users table *)

Procs == 1..MaxSignups

USERNAME_LIMIT == 10000

Emails ==
    { <<"H", "a", "m", "@", "a">>,
      <<"h", ".", "a", "m", "@", "b">>,
      <<"h", "a", "m", "2", "@", "a">>,
      <<".", "@", "a">> }

DigitChars == <<"0", "1", "2", "3", "4", "5", "6", "7", "8", "9">>

\* str(counter) inside the f-string
RECURSIVE IntToStr(_)
IntToStr(n) ==
    IF n < 10
    THEN << DigitChars[n + 1] >>
    ELSE IntToStr(n \div 10) \o << DigitChars[(n % 10) + 1] >>

\* email.split('@')[0]
RECURSIVE LocalPart(_)
LocalPart(email) ==
    IF email = << >> \/ Head(email) = "@"
    THEN << >>
    ELSE << Head(email) >> \o LocalPart(Tail(email))

\* the characters kept by re.sub(r'[^a-zA-Z0-9_]', '', ...)
IsUsernameChar(c) ==
    \/ IsDigit(c)
    \/ c = "_"
    \/ \E i \in 1..Len(LowerChars) : LowerChars[i] = c
    \/ \E i \in 1..Len(UpperChars) : UpperChars[i] = c

derive_username(email) ==
    LET username == SelectSeq(LocalPart(email), IsUsernameChar)
    IN  Lower(IF username = << >> THEN <<"u", "s", "e", "r">> ELSE username)

\* f"{base_username}{counter}"
candidate_username(base_username, counter) == base_username \o IntToStr(counter)

User(email, username) == [email |-> email, username |-> username]

Usernames(rows) == { r.username : r \in rows }

UserEmails(rows) == { r.email : r \in rows }

\* the users table as earlier signups can have left it
StoredUsers ==
    { {},
      { User(<<"h", "a", "m", "@", "c">>, <<"h", "a", "m">>) },
      { User(<<"h", "a", "m", "@", "c">>, <<"h", "a", "m">>),
        User(<<"h", "a", ".", "m", "@", "c">>, <<"h", "a", "m", "2">>) } }

\* the insert without the constraint uq_users_username
commit_user_without_username_constraint(rows, user) ==
    LET ok == user.email \notin UserEmails(rows)
    IN  [ok |-> ok, rows |-> IF ok THEN rows \cup {user} ELSE rows]

\* db.add(user); await db.commit() against uq_users_email and
\* uq_users_username: a row that repeats either column is refused
commit_user(rows, user) ==
    LET ok == user.email \notin UserEmails(rows) /\ user.username \notin Usernames(rows)
    IN  [ok |-> ok, rows |-> IF ok THEN rows \cup {user} ELSE rows]

NoSignup ==
    [pc |-> "idle", email |-> << >>, base_username |-> << >>, counter |-> 0,
     username |-> << >>, status |-> 0]

SignupInit ==
    /\ ChatIdle
    /\ SynthIdle
    /\ ChunkIdle
    /\ IngestIdle
    /\ SessionIdle
    /\ users \in StoredUsers
    /\ signup = [p \in Procs |-> NoSignup]

SignupFrame == UNCHANGED << chatVars, synVars, chunkVars, ingestVars, sessionVars >>

\* api/v1/auth.py 55-60: a signup request enters create_user
ReceiveSignup ==
    \E p \in Procs, email \in Emails :
        /\ signup[p].pc = "idle"
        /\ signup' = [signup EXCEPT ![p].pc = "check_email", ![p].email = email]
        /\ UNCHANGED users
        /\ SignupFrame

\* create_user: SELECT by email, 400 when it is registered, else derive_username
CheckEmail ==
    \E p \in Procs :
        /\ signup[p].pc = "check_email"
        /\ signup' = IF signup[p].email \in UserEmails(users)
                     THEN [signup EXCEPT ![p].pc = "done", ![p].status = 400]
                     ELSE [signup EXCEPT ![p].pc = "check_base",
                                         ![p].base_username = derive_username(signup[p].email)]
        /\ UNCHANGED users
        /\ SignupFrame

\* resolve_username_collision: SELECT the base name; return it when unused,
\* else start the counter at 2
CheckBase ==
    \E p \in Procs :
        /\ signup[p].pc = "check_base"
        /\ signup' = IF signup[p].base_username \notin Usernames(users)
                     THEN [signup EXCEPT ![p].pc = "commit",
                                         ![p].username = signup[p].base_username]
                     ELSE [signup EXCEPT ![p].pc = "check_candidate", ![p].counter = 2]
        /\ UNCHANGED users
        /\ SignupFrame

\* resolve_username_collision: one turn of the while loop, one SELECT
CheckCandidate ==
    \E p \in Procs :
        /\ signup[p].pc = "check_candidate"
        /\ LET candidate == candidate_username(signup[p].base_username, signup[p].counter)
           IN  signup' =
                 IF signup[p].counter < USERNAME_LIMIT
                 THEN IF candidate \notin Usernames(users)
                      THEN [signup EXCEPT ![p].pc = "commit", ![p].username = candidate]
                      ELSE [signup EXCEPT ![p].counter = signup[p].counter + 1]
                 ELSE [signup EXCEPT ![p].pc = "done", ![p].status = 500]
        /\ UNCHANGED users
        /\ SignupFrame

\* create_user: db.add, db.commit; an IntegrityError leaves create_user and
\* the endpoint as an unhandled exception (500)
CommitUser ==
    \E p \in Procs :
        /\ signup[p].pc = "commit"
        /\ LET committed == commit_user(users, User(signup[p].email, signup[p].username))
           IN  /\ users' = committed.rows
               /\ signup' = [signup EXCEPT ![p].pc = "done",
                                           ![p].status = IF committed.ok THEN 201 ELSE 500]
        /\ SignupFrame

SignupNext ==
    \/ ReceiveSignup
    \/ CheckEmail
    \/ CheckBase
    \/ CheckCandidate
    \/ CommitUser

SignupSpec == SignupInit /\ [][SignupNext]_vars

----------------------------------------------------------------------------
(* Properties *)

NoRetrievalCalls == calls.embed = 0 /\ calls.search = 0 /\ calls.generate = 0

ConfiguredThreshold == Frac(CONFIDENCE_THRESHOLD, ScoreUnit)

\* C1: the Answer of a query depends only on the query and on the provider
\* responses to its own calls: an ON_TOPIC query none of whose own provider
\* calls failed, without denylist keyword and with a confidence at or above the
\* threshold, ends with a synthesized answer, whatever failed in earlier queries.
C1_AnswerIndependentOfEarlierFailures ==
    ( /\ pc = "done"
      /\ classification.label = "ON_TOPIC"
      /\ failed = {}
      /\ chunks # << >>
      /\ ~is_out_of_scope(query)
      /\ ~FracLess(check_confidence(chunks), ConfiguredThreshold) )
    => response.answer = "LLM_ANSWER"

\* C2: an ON_TOPIC (or fallback-classified) query containing a denylist keyword
\* gets the decline Answer and no embedding request and no vector search is
\* made for it.
C2_KeywordScreenBeforeRetriever ==
    (classification.label = "ON_TOPIC" /\ is_out_of_scope(query))
    => /\ calls.embed = 0 /\ calls.search = 0
       /\ pc = "done" => response = Decline

ClassificationCallFailed(out) ==
    out.kind \in {"raise", "none", NotCalled} \/ out.score = "bad"

ClassificationOutputMalformed(out) ==
    out.kind = "text" /\ (out.cls = "missing" \/ out.score \in {"missing", "bad"})

C4_GreetingAndOffTopicShortCircuit ==
    /\ (classification.label = "GREETING" \/ (pc # "idle" /\ is_fast_path_greeting(query)))
       => /\ pc = "done"
          /\ response = ChatResponse(GREETING_RESPONSE, << >>, One)
          /\ NoRetrievalCalls
    /\ classification.label = "OFF_TOPIC"
       => /\ pc = "done"
          /\ response = ChatResponse(OFF_TOPIC_RESPONSE, << >>, Zero)
          /\ NoRetrievalCalls

C4_Witness ==
    /\ pc = "done"
    /\ classification.label = "OFF_TOPIC"
    /\ calls.classify = 1

\* C5: a query classified AMBIGUOUS ends with confidence 0.5, no citations and
\* no retrieval; its text is the model's clarification when the model returned
\* a clarification block, and the fixed generic line on any failure (call
\* error, no text, no block); no error is raised.
C5_ClarificationOrGenericLine ==
    classification.label = "AMBIGUOUS"
    => /\ pc \in {"clarify", "done"}
       /\ NoRetrievalCalls
       /\ pc = "done"
          => /\ response.confidence = Half
             /\ response.citations = << >>
             /\ response.answer =
                  IF clarify_out.kind = "text" /\ clarify_out.block = "present"
                  THEN "LLM_CLARIFICATION" ELSE GENERIC_CLARIFICATION

C5_Witness ==
    /\ pc = "done"
    /\ classification.label = "AMBIGUOUS"
    /\ clarify_out.kind = "text"
    /\ clarify_out.block = "missing"
    /\ response.answer = GENERIC_CLARIFICATION

\* C6: after generate_answer, a computed confidence strictly below the
\* threshold gives the decline Answer with confidence exactly 0.0, no citations
\* and no chat-completion call; a confidence at or above it with a successful
\* completion is reported unchanged.
C6_ThresholdGate ==
    (pc = "done" /\ chunks # << >>)
    => /\ FracLess(check_confidence(chunks), ConfiguredThreshold)
          => (response = Decline /\ calls.generate = 0)
       /\ ( /\ ~FracLess(check_confidence(chunks), ConfiguredThreshold)
            /\ calls.generate = 1
            /\ "generate" \notin failed )
          => /\ response.answer = "LLM_ANSWER"
             /\ response.confidence = check_confidence(chunks)

C6_Witness ==
    /\ pc = "done"
    /\ chunks # << >>
    /\ FracLess(Zero, check_confidence(chunks))
    /\ FracLess(check_confidence(chunks), ConfiguredThreshold)
    /\ response.confidence = Zero

\* C7: once retrieval is reached, a failed query embedding or an empty search
\* result gives the decline Answer without any answer-generation call, and a
\* failed or empty completion gives the decline Answer.
C7_StageFailureDeclines ==
    pc = "done"
    => /\ "embed" \in failed
          => (response = Decline /\ calls.search = 0 /\ calls.generate = 0)
       /\ (query_embedding /\ chunks = << >>)
          => (response = Decline /\ calls.generate = 0)
       /\ "generate" \in failed => response = Decline

C7_Witness ==
    /\ pc = "done"
    /\ "generate" \in failed
    /\ chunks # << >>
    /\ response = Decline

PredefinedAnswers ==
    { GREETING_RESPONSE, OFF_TOPIC_RESPONSE, OUT_OF_SCOPE_MESSAGE,
      GENERIC_CLARIFICATION, "LLM_CLARIFICATION" }

PcRank(p) ==
    CASE p = "idle" -> 0
      [] p = "classify" -> 1
      [] p = "clarify" -> 2
      [] p = "embed" -> 2
      [] p = "search" -> 3
      [] p = "generate" -> 4
      [] OTHER -> 5

C9_NoRetry ==
    /\ calls.classify <= 1
    /\ calls.clarify <= 1
    /\ calls.embed <= 1
    /\ calls.search <= 1
    /\ calls.generate <= 1

C9_Witness ==
    /\ pc = "done"
    /\ "embed" \in failed
    /\ calls.embed = 1

\* C10: every Answer returned has 0.0 <= confidence <= 1.0, whatever
\* similarity scores the vector index reports.
C10_ConfidenceInUnitInterval ==
    pc = "done"
    => /\ FracLeq(Zero, response.confidence)
       /\ FracLeq(response.confidence, One)


----------------------------------------------------------------------------
(* Properties of the synthesizer's pure functions, under SynthSpec *)

CitationsBuilt == syn_pc \in {"url", "done"}

\* C11: for every list of retrieved chunks the citation list built by
\* _build_citations has at most 5 entries and no two entries share the same
\* normalized URL.
C11_AtMostFiveDistinctUrls ==
    CitationsBuilt =>
        /\ Len(syn_citations) <= 5
        /\ \A i, j \in 1..Len(syn_citations) :
               i # j => syn_citations[i].url # syn_citations[j].url

\* six chunks, two of the first five of one page: four citations
C11_Witness ==
    /\ syn_pc = "done"
    /\ Len(syn_chunks) = 6
    /\ Len(syn_citations) = 4

TopFive(cs) == [i \in 1..(IF Len(cs) < 5 THEN Len(cs) ELSE 5) |-> cs[i]]

NormalizedUrlAt(cs, i) == clean_citation_url(cs[i].url)

FirstWithUrl(cs, u) ==
    CHOOSE i \in 1..Len(cs) :
        /\ NormalizedUrlAt(cs, i) = u
        /\ \A j \in 1..(i - 1) : NormalizedUrlAt(cs, j) # u

\* C12: citation deduplication is order-preserving and first-wins: among the
\* top 5 retrieved chunks each distinct normalized URL yields exactly one
\* Citation, carrying the chapter, section and similarity score of the first
\* chunk (in retrieval order) with that normalized URL, and the citations
\* appear in the order of those first occurrences.
C12_FirstOccurrenceWins ==
    CitationsBuilt =>
        LET top == TopFive(syn_chunks)
            urls == { NormalizedUrlAt(top, i) : i \in 1..Len(top) }
            n == Len(syn_citations)
        IN  /\ n = Cardinality(urls)
            /\ \A u \in urls :
                   Cardinality({ k \in 1..n : syn_citations[k].url = u }) = 1
            /\ \A k \in 1..n :
                   /\ syn_citations[k].url \in urls
                   /\ LET f == FirstWithUrl(top, syn_citations[k].url)
                      IN  /\ syn_citations[k].chapter = top[f].chapter
                          /\ syn_citations[k].section = top[f].section
                          /\ syn_citations[k].relevance_score = top[f].score
            /\ \A k \in 1..(n - 1) :
                   FirstWithUrl(top, syn_citations[k].url)
                       < FirstWithUrl(top, syn_citations[k + 1].url)

\* two of the top chunks share a page under different sections, and a chunk
\* of another page follows them
C12_Witness ==
    /\ syn_pc = "done"
    /\ \E i, j, k \in 1..Len(TopFive(syn_chunks)) :
           /\ i < j /\ j < k
           /\ NormalizedUrlAt(syn_chunks, i) = NormalizedUrlAt(syn_chunks, j)
           /\ syn_chunks[i].section # syn_chunks[j].section
           /\ NormalizedUrlAt(syn_chunks, k) # NormalizedUrlAt(syn_chunks, i)
    /\ Len(syn_citations) > 1

RECURSIVE GCD(_, _)
GCD(a, b) == IF b = 0 THEN a ELSE GCD(b, a % b)

\* a fraction of non-negative terms in lowest terms
Reduced(n, d) == Frac(n \div GCD(n, d), d \div GCD(n, d))

FracAdd(a, b) == Reduced(a.num * b.den + b.num * a.den, a.den * b.den)

FracMul(a, b) == Reduced(a.num * b.num, a.den * b.den)

RECURSIVE TotalScore(_, _)
TotalScore(cs, n) == IF n = 0 THEN 0 ELSE cs[n].score + TotalScore(cs, n - 1)

ScoresOf(cs) == [i \in 1..Len(cs) |-> cs[i].score]

\* C13: check_confidence returns 0.6 * (similarity score of the first chunk)
\* + 0.4 * (mean similarity score of all retrieved chunks), and 0.0 for an
\* empty chunk list; scores [0.9, 0.7, 0.5] give 0.82.
C13_WeightedConfidence ==
    syn_pc \in {"citations", "url", "done"} =>
        /\ IF syn_chunks = << >>
           THEN FracEq(syn_confidence, Zero)
           ELSE FracEq(syn_confidence,
                       FracAdd(FracMul(Frac(6, 10), Frac(syn_chunks[1].score, ScoreUnit)),
                               FracMul(Frac(4, 10),
                                       Frac(TotalScore(syn_chunks, Len(syn_chunks)),
                                            Len(syn_chunks) * ScoreUnit))))
        /\ ScoresOf(syn_chunks) = << 90, 70, 50 >> => FracEq(syn_confidence, Frac(82, 100))

C13_Witness ==
    /\ syn_pc = "done"
    /\ ScoresOf(syn_chunks) = << 90, 70, 50 >>
    /\ FracEq(syn_confidence, Frac(82, 100))

(* the rewrite the claim describes, step by step *)

RefDropPrefix(u, p) ==
    IF Len(u) >= Len(p) /\ \A i \in 1..Len(p) : u[i] = p[i]
    THEN [i \in 1..(Len(u) - Len(p)) |-> u[Len(p) + i]]
    ELSE u

RefDropSuffix(u, x) ==
    IF Len(u) >= Len(x) /\ \A i \in 1..Len(x) : u[Len(u) - Len(x) + i] = x[i]
    THEN [i \in 1..(Len(u) - Len(x)) |-> u[i]]
    ELSE u

RefStep1(u) ==
    IF RefDropPrefix(u, <<"d", "o", "c", "s", "/">>) # u THEN RefDropPrefix(u, <<"d", "o", "c", "s", "/">>)
    ELSE RefDropPrefix(u, <<"/", "d", "o", "c", "s", "/">>)

RefStep2(u) == RefDropSuffix(u, <<".", "m", "d">>)

RefStep3(u) == RefDropSuffix(u, <<"/", "i", "n", "d", "e", "x">>)

\* p is one or more runs of digits, each followed by "." or "-"
IsNumericRuns(p) ==
    /\ Len(p) > 0
    /\ IsDigit(p[1])
    /\ p[Len(p)] \in {".", "-"}
    /\ \A i \in 1..Len(p) : IsDigit(p[i]) \/ p[i] \in {".", "-"}
    /\ \A i \in 1..(Len(p) - 1) : p[i] \in {".", "-"} => IsDigit(p[i + 1])

RefStripRuns(seg) ==
    LET ks == { k \in 0..Len(seg) : k = 0 \/ IsNumericRuns([i \in 1..k |-> seg[i]]) }
        kmax == CHOOSE k \in ks : \A j \in ks : j <= k
    IN  [i \in 1..(Len(seg) - kmax) |-> seg[kmax + i]]

\* the kept segments of u that start after position a
RECURSIVE RefSegmentsFrom(_, _)
RefSegmentsFrom(u, a) ==
    IF a > Len(u) THEN << >>
    ELSE LET ends == { c \in (a + 1)..(Len(u) + 1) : c = Len(u) + 1 \/ u[c] = "/" }
             b == CHOOSE c \in ends : \A e \in ends : c <= e
             kept == RefStripRuns([i \in 1..(b - a - 1) |-> u[a + i]])
         IN  (IF kept = << >> THEN << >> ELSE << kept >>) \o RefSegmentsFrom(u, b)

RECURSIVE RefJoin(_)
RefJoin(segs) ==
    IF Len(segs) = 0 THEN << >>
    ELSE IF Len(segs) = 1 THEN segs[1]
    ELSE RefJoin([i \in 1..(Len(segs) - 1) |-> segs[i]]) \o << "/" >> \o segs[Len(segs)]

RefStep5(u) == IF Len(u) > 0 /\ u[1] = "/" THEN u ELSE << "/" >> \o u

RefRewrite(u) ==
    RefStep5(RefJoin(RefSegmentsFrom(RefStep3(RefStep2(RefStep1(u))), 0)))

UrlExamplesHold ==
    /\ syn_url = <<"d", "o", "c", "s", "/", "0", "2", "-", "r", "o", "s", "2", "/", "2", ".", "1", "-", "i", "n", "t", "r", "o", ".", "m", "d">>
           => syn_clean = <<"/", "r", "o", "s", "2", "/", "i", "n", "t", "r", "o">>
    /\ syn_url = <<"0", "3", "-", "p", "e", "r", "c", "e", "p", "t", "i", "o", "n", "/", "3", ".", "2", "-", "c", "a", "m", "e", "r", "a", "s", ".", "m", "d">>
           => syn_clean = <<"/", "p", "e", "r", "c", "e", "p", "t", "i", "o", "n", "/", "c", "a", "m", "e", "r", "a", "s">>
    /\ syn_url = <<"d", "o", "c", "s", "/", "0", "1", "-", "i", "n", "t", "r", "o", "/", "i", "n", "d", "e", "x", ".", "m", "d">>
           => syn_clean = <<"/", "i", "n", "t", "r", "o">>

----------------------------------------------------------------------------
(* Properties of the chunker and of parse_docs_folder, under ChunkSpec *)

Range(q) == { q[i] : i \in 1..Len(q) }

\* the sentences of the paragraphs of the sections of a document
SourceSentences(file) ==
    UNION { UNION { Range(SplitSentences(paragraph, << >>))
                    : paragraph \in Range(SplitParagraphs(section.text, << >>)) }
            : section \in Range(split_by_headings(file.content)) }

\* C15: for every document and every max_tokens and overlap setting, no
\* emitted chunk has a token estimate (floor(len(text)/4) of the emitted chunk
\* text) greater than max_tokens, except a chunk that consists of exactly one
\* source sentence which alone exceeds max_tokens.
C15_ChunksWithinMaxTokens ==
    \A i \in 1..Len(all_chunks) :
        \/ Len(all_chunks[i].raw_text) \div 4 <= cfg_max_tokens
        \/ \E file \in Range(md_files) :
               /\ file.status = "ok"
               /\ all_chunks[i].source_file = file.path
               /\ all_chunks[i].raw_text \in SourceSentences(file)

RECURSIVE ExpectedChunks(_, _, _)
ExpectedChunks(files, max_tokens, overlap) ==
    IF files = << >> THEN << >>
    ELSE (IF Head(files).status = "ok"
          THEN AllSectionChunks(Head(files).path, chapter_of(Head(files).metadata),
                                split_by_headings(Head(files).content),
                                max_tokens, overlap)
          ELSE << >>)
         \o ExpectedChunks(Tail(files), max_tokens, overlap)

\* C18: a document that cannot be read or parsed makes chunk_markdown return
\* an empty list without raising, and parse_docs_folder still returns the
\* chunks of every other document of the batch, wherever in the batch the
\* failing document occurs.
C18_FailedDocumentSkipped ==
    /\ \A i \in 1..Len(chunk_results) :
           md_files[i].status # "ok"
               => chunk_results[i] = [raised |-> FALSE, count |-> 0]
    /\ parse_pc = "done"
           => all_chunks = ExpectedChunks(md_files, cfg_max_tokens, cfg_overlap)

\* an unreadable file first, an unparseable file last, chunks of the file between
C18_Witness ==
    /\ parse_pc = "done"
    /\ Len(md_files) = 3
    /\ md_files[1].status = "unreadable"
    /\ md_files[2].status = "ok"
    /\ md_files[3].status = "unparseable"
    /\ Len(all_chunks) > 0
    /\ parsed_files = 3

\* what the claims about re-ingestion compare: ids and payloads of the index
PointView(idx) == { [id |-> p.id, payload |-> p.payload] : p \in idx }

\* C17: once an invocation has stored the whole document set, no step of a
\* later invocation over the same documents changes the set of point ids and
\* payloads of the index, as long as the collection is not dropped.
C17_ReingestionIdempotent ==
    [][(ing_whole_runs > 0 /\ ing_whole_runs' > 0)
           => PointView(index') = PointView(index)]_vars

\* a second invocation stored the whole folder again, in two upsert batches
\* and with two chunks of one id, over the index the first one left
C17_Witness ==
    /\ ing_pc = "done"
    /\ ing_whole_runs = 2
    /\ ing_written = Len(ing_chunks)
    /\ ing_written > UPSERT_BATCH_SIZE
    /\ Cardinality(index) < ing_written

\* the slice of the valid texts that sub-batch k has to be
ExpectedSubBatch(valid, k) ==
    [j \in 1..Min(EMBED_BATCH_LIMIT, Len(valid) - EMBED_BATCH_LIMIT * (k - 1)) |->
        valid[EMBED_BATCH_LIMIT * (k - 1) + j]]

\* C19: the texts are submitted as consecutive sub-batches of at most 96 in
\* input order, the vectors come back in input order, no sub-batch is
\* submitted after a failed one, and an invocation in which a sub-batch
\* failed reports partial success.
C19_SubBatchesInOrderAndPartialSuccess ==
    LET valid == valid_texts(TextsOf(ing_chunks))
    IN  Len(valid) > EMBED_BATCH_LIMIT =>
          /\ \A k \in 1..Len(ing_submitted) :
                /\ Len(ing_submitted[k]) <= EMBED_BATCH_LIMIT
                /\ ing_submitted[k] = ExpectedSubBatch(valid, k)
          /\ ing_pc = "upsert" =>
                ing_embeddings = [j \in 1..Len(valid) |-> VectorOf(valid[j])]
          /\ ing_failed_at # 0 => Len(ing_submitted) = ing_failed_at
          /\ (ing_pc = "done" /\ ing_failed_at # 0) =>
                ing_report.status = "partial_success"

\* C20: the count an invocation reports is the number of chunks it stored in
\* the index, whether it is the return value of embed_and_store or the
\* chunks_ingested field of the result.
C20_ReportedCountIsStoredCount ==
    ing_pc = "done" =>
        /\ ing_stored = ing_written
        /\ ing_report.chunks_ingested = ing_written

\* the greeting tokens of the fast path as the specification lists them
GreetingTokens ==
    { <<"h", "i">>,
      <<"h", "e", "l", "l", "o">>,
      <<"h", "e", "y">>,
      <<"s", "a", "l", "a", "m">>,
      <<"g", "o", "o", "d", " ", "m", "o", "r", "n", "i", "n", "g">>,
      <<"g", "o", "o", "d", " ", "a", "f", "t", "e", "r", "n", "o", "o", "n">>,
      <<"g", "o", "o", "d", " ", "e", "v", "e", "n", "i", "n", "g">> }

EqualsOrStartsWithGreeting(q) ==
    LET query_lower == Strip(Lower(q))
    IN  \E t \in GreetingTokens : StartsWith(query_lower, t)

\* C21: a query whose lower-cased, trimmed text equals or starts with a
\* greeting token is answered with the greeting at confidence 1.0 and no
\* chat-completion call is made for it.
C21_GreetingTokensTakeFastPath ==
    (pc # "idle" /\ EqualsOrStartsWithGreeting(query)) =>
        /\ pc = "done"
        /\ response = ChatResponse(GREETING_RESPONSE, << >>, One)
        /\ calls.classify = 0
        /\ calls.clarify = 0
        /\ calls.generate = 0

\* a response text holding one of the four labels and a number as score
WellFormedResponse(out) ==
    /\ out.kind = "text"
    /\ out.cls \in Labels
    /\ out.score \in {"1.0", "0.5", "0.0"}

\* C22: when the chat-completion capability, called through llm.py's own
\* generate, returns a well-formed response, classify_query returns the label
\* and the score written in it, and empty reasoning when the response has none.
C22_WellFormedResponseParsed ==
    (pc # "classify" /\ ~awaitable /\ calls.classify = 1
        /\ WellFormedResponse(classify_out)) =>
        /\ classification.label = classify_out.cls
        /\ classification.score = ScoreOf(classify_out.score)
        /\ classify_out.reasoning = "missing" => classification.reasoning = ""

\* the score the specification fixes for a label
FixedScore(label) ==
    CASE label \in {"GREETING", "ON_TOPIC"} -> ScoreUnit
      [] label = "AMBIGUOUS" -> ScoreUnit \div 2
      [] OTHER -> 0

\* C23: every classification result has one of the four labels and the fixed
\* score of its label, and the retriever is reached only for label ON_TOPIC.
C23_LabelAndFixedScore ==
    /\ classification # NoClassification =>
         /\ classification.label \in Labels
         /\ classification.score = FixedScore(classification.label)
    /\ (pc \in {"embed", "search", "generate"} \/ calls.embed > 0) =>
         classification.label = "ON_TOPIC"

\* C24: a request whose session id is in the store is answered under that id
\* and creates no session; a request without a known session id gets one new
\* session, linked to its user; with the store unavailable the answer
\* carries a temporary id that no row has, and the query is still answered.
C24_SessionContinuity ==
    ses_pc = "done" =>
        LET known == ses_request.session_id \in SessionIds(ses_before)
            created == { row \in sessions : row.session_id \notin SessionIds(ses_before) }
        IN  /\ ses_response.status = 200
            /\ (db_available /\ known) =>
                  /\ ses_response.session_id = ses_request.session_id
                  /\ created = {}
            /\ (db_available /\ ~known) =>
                  /\ Cardinality(created) = 1
                  /\ \A row \in created :
                        /\ row.user_id = ses_request.user_id
                        /\ row.session_id = ses_response.session_id
            /\ ~db_available =>
                  /\ ses_response.session_id # NoSession
                  /\ ses_response.session_id \notin SessionIds(sessions)

\* C25: within one document no two emitted chunks carry the same chunk id,
\* whatever max_tokens and overlap are.
C25_ChunkIdsDistinctPerDocument ==
    \A i, j \in 1..Len(all_chunks) :
        (i < j /\ all_chunks[i].source_file = all_chunks[j].source_file)
            => all_chunks[i].chunk_id # all_chunks[j].chunk_id

\* the paragraphs of a document's body that are not heading lines, split into
\* their sentences, in document order
RECURSIVE BodyUnits(_)
BodyUnits(paragraphs) ==
    IF paragraphs = << >> THEN << >>
    ELSE (IF StripWhitespace(Head(paragraphs)) = << >> \/ HeadingAt(Head(paragraphs), 1)
          THEN << >>
          ELSE SplitSentences(StripWhitespace(Head(paragraphs)), << >>))
         \o BodyUnits(Tail(paragraphs))

\* every unit is part of the text of a chunk, from the given chunk onwards and
\* never in a chunk before the chunk of the unit before it
RECURSIVE CoveredInOrder(_, _, _)
CoveredInOrder(units, texts, from) ==
    \/ units = << >>
    \/ \E k \in from..Len(texts) :
           /\ Contains(texts[k], Head(units))
           /\ CoveredInOrder(Tail(units), texts, k)

ChunkTextsOf(file) ==
    LET own == SelectSeq(all_chunks, LAMBDA c : c.source_file = file.path)
    IN  [k \in 1..Len(own) |-> own[k].raw_text]

\* C26: every non-empty paragraph of a document's body, before the first
\* heading, between headings or after the last, is part of the text of an
\* emitted chunk, and the chunk texts follow the order of the document.
C26_NoContentLost ==
    \A i \in 1..Len(chunk_results) :
        md_files[i].status = "ok" =>
            CoveredInOrder(BodyUnits(SplitParagraphs(md_files[i].content, << >>)),
                           ChunkTextsOf(md_files[i]), 1)

----------------------------------------------------------------------------
(* Further properties of the ingestion, under IngestSpec *)

\* C27: every stored chunk carries the vector computed from its own raw_text,
\* also when the chunk list holds chunks with empty or blank text.
C27_StoredVectorIsOfOwnText ==
    \A p \in index : p.vector = VectorOf(p.payload.raw_text)

\* an invocation stored its chunks in two upsert batches, the vectors having
\* come from two embedding sub-batches
C27_Witness ==
    /\ ing_pc = "done"
    /\ Len(ing_submitted) = 2
    /\ ing_written = Len(ing_chunks)
    /\ ing_written > UPSERT_BATCH_SIZE
    /\ \E p \in index : p.payload.raw_text # BlankText

\* C28: a run_full_ingestion invocation that ends with status failed or
\* partial_success leaves in the index at least the points the index held
\* when the invocation started.
C28_FailedIngestionKeepsIndex ==
    (ing_pc = "done" /\ ing_entry = "run_full_ingestion"
        /\ ing_report.status \in {"failed", "partial_success"})
        => ing_index_before \subseteq index

----------------------------------------------------------------------------
(* Further properties of the synthesizer's pure functions, under SynthSpec *)

\* C29: URL normalisation is idempotent: normalising the normalised form of
\* any URL gives that normalised form again.
C29_NormalizationIdempotent ==
    syn_pc = "done" => clean_citation_url(syn_clean) = syn_clean

UniqueUsernames == \A u, v \in users : u.username = v.username => u = v

\* the base name when no row has it, else the base name followed by the
\* smallest integer from 2 on that gives a name no row has
SmallestUnusedUsername(rows, base_username) ==
    IF base_username \notin Usernames(rows)
    THEN base_username
    ELSE LET Unused(k) == candidate_username(base_username, k) \notin Usernames(rows)
             smallest == CHOOSE n \in 2..(Cardinality(rows) + 2) :
                             Unused(n) /\ \A j \in 2..(n - 1) : ~Unused(j)
         IN  candidate_username(base_username, smallest)

ResolveReturnsSmallestUnused ==
    \A p \in Procs :
        (signup[p].pc \in {"check_base", "check_candidate"} /\ signup'[p].pc = "commit")
            => signup'[p].username = SmallestUnusedUsername(users, signup[p].base_username)

\* C30: under every interleaving of concurrent create_user calls no two stored
\* users share a username, and resolve_username_collision returns the base
\* name when it is unused, else the base name followed by the smallest
\* integer >= 2 that makes an unused name.
C30_UsernamesUnique == []UniqueUsernames /\ [][ResolveReturnsSmallestUnused]_vars

\* two calls with different emails resolved the same numbered username; one
\* row is stored and the other commit was refused
C30_Witness ==
    \E p, q \in Procs :
        /\ signup[p].pc = "done" /\ signup[q].pc = "done"
        /\ signup[p].email # signup[q].email
        /\ signup[p].username = signup[q].username
        /\ signup[p].counter >= 2
        /\ signup[p].status = 201 /\ signup[q].status = 500
        /\ User(signup[p].email, signup[p].username) \in users

====
